---- MODULE Spec2Model ----
(***************************************************************************)
(* State-machine model of the hooks of react-hooks-lib:                    *)
(*   - useDebounce     (Debounced Value Emitter)                           *)
(*   - useLocalStorage (Persisted Key-Value Synchronizer)                  *)
(*                                                                         *)
(* The bodies of useDebounce.ts and useLocalStorage.ts are taken from      *)
(* their listings in TUTORIAL.md (Step 3) and from the behaviour their     *)
(* test suites pin down (useDebounce.test.ts, useLocalStorage.test.ts).    *)
(***************************************************************************)
EXTENDS Integers, Sequences, FiniteSets, TLC

(***************************************************************************)
(* Bounds of the model.                                                    *)
(***************************************************************************)
\* Time is counted in ticks of 100 ms; the clock stops at MaxTime.
MaxTime == 8

\* The counter driven by the updater (prev) => prev + 1 stops here.
MaxCount == 2

\* 'storage' events queued for the window at one time.
MaxEvents == 1

(***************************************************************************)
(* Data of useDebounce.                                                    *)
(***************************************************************************)

\* Input payloads (T is opaque to the hook; deps are compared by Object.is).
Values == {"a", "b", "c"}

\* Delays in ticks of 100 ms: 0 ms, 300 ms, 500 ms.
Delays == {0, 3, 5}

\* The inputs of the runs checked for liveness.
LiveValues == {"a", "b"}
LiveDelays == {0, 3}

\* "No previous effect" marker of the history variable prev.
NoEffect == [t |-> -1, v |-> "none", d |-> -1, out |-> "none"]

VARIABLES
    now,             \* host clock, in ticks
    mounted,         \* the component owning the hook is mounted
    value,           \* the value prop of the latest render
    delay,           \* the delay prop of the latest render
    debouncedValue,  \* the hook's state = its output
    timers,          \* the host's table of pending timeouts: [id, due, val]
    handler,         \* the timeout id captured by the current effect's cleanup
    effectPending,   \* the effect of the latest render has yet to run
    cleanupPending,  \* unmounted, the effect's cleanup has yet to run
    deps,            \* the [value, delay] the current effect ran with
    effectAt,        \* history: time the current effect ran
    valueAt,         \* history: time the value prop last changed
    outAtEffect,     \* history: the output when the current effect ran
    fires,           \* history: timer callbacks run since the current effect ran
    prev,            \* history: the effect run before it [t, v, d, out]
    lastStep         \* history: the kind of the last step taken

dvars == <<now, mounted, value, delay, debouncedValue, timers, handler,
           effectPending, cleanupPending, deps, effectAt, valueAt, outAtEffect,
           fires, prev, lastStep>>

(***************************************************************************)
(* The serialization codec: JSON.stringify / JSON.parse.                   *)
(* Strings are sequences of one-character strings.  JSON values are tagged *)
(* records: null, booleans, numbers, strings, arrays and objects.          *)
(***************************************************************************)
JNull == [t |-> "null"]
JBool(b) == [t |-> "bool", b |-> b]
JNum(n) == [t |-> "num", n |-> n]
\* A number that is no integer below 10^9: m * 10^e, with the decimal
\* mantissa m not divisible by 10.  (Up to 9 significant digits, which a
\* double holds exactly through parse and toString.)
JDec(m, e) == [t |-> "dec", m |-> m, e |-> e]
\* A number beyond the largest double: Infinity, or -Infinity when neg.
JInf(neg) == [t |-> "inf", neg |-> neg]
JStr(s) == [t |-> "str", s |-> s]
JArr(a) == [t |-> "arr", a |-> a]
\* An object: its members [k, v] in the order of its own keys.
JObj(m) == [t |-> "obj", m |-> m]

DigitChars == <<"0", "1", "2", "3", "4", "5", "6", "7", "8", "9">>

IsDigit(c) == \E k \in 1..10 : DigitChars[k] = c

DigitVal(c) == (CHOOSE k \in 1..10 : DigitChars[k] = c) - 1

\* The decimal digits of a natural number.
RECURSIVE NatDigits(_)
NatDigits(n) ==
    IF n < 10 THEN <<DigitChars[n + 1]>>
    ELSE NatDigits(n \div 10) \o <<DigitChars[(n % 10) + 1]>>

\* Hexadecimal digits, as JSON.stringify writes them and as JSON.parse also
\* accepts them.
HexChars == <<"0", "1", "2", "3", "4", "5", "6", "7", "8", "9",
              "a", "b", "c", "d", "e", "f">>
UpperHexChars == <<"A", "B", "C", "D", "E", "F">>

IsHex(c) == (\E k \in 1..16 : HexChars[k] = c)
                \/ (\E k \in 1..6 : UpperHexChars[k] = c)

HexVal(c) ==
    IF \E k \in 1..16 : HexChars[k] = c
    THEN (CHOOSE k \in 1..16 : HexChars[k] = c) - 1
    ELSE (CHOOSE k \in 1..6 : UpperHexChars[k] = c) + 9

\* The characters U+0020 .. U+007E, in code order.  (The grave accent,
\* U+0060, cannot be written in a string here and stands as \u0060.)
Printable ==
    <<" ", "!", "\"", "#", "$", "%", "&", "'", "(", ")", "*", "+", ",", "-",
      ".", "/", "0", "1", "2", "3", "4", "5", "6", "7", "8", "9", ":", ";",
      "<", "=", ">", "?", "@", "A", "B", "C", "D", "E", "F", "G", "H", "I",
      "J", "K", "L", "M", "N", "O", "P", "Q", "R", "S", "T", "U", "V", "W",
      "X", "Y", "Z", "[", "\\", "]", "^", "_", "\\u0060", "a", "b", "c", "d",
      "e",
      "f", "g", "h", "i", "j", "k", "l", "m", "n", "o", "p", "q", "r", "s",
      "t", "u", "v", "w", "x", "y", "z", "{", "|", "}", "~">>

\* The UTF-16 code unit with the hexadecimal digit values h[1..4], as an
\* element of a string: the character itself for U+0020 .. U+007E and for
\* tab, line feed, form feed and carriage return; any other code unit is
\* written as the text \uXXXX in one element.
CodeUnit(h) ==
    LET code == h[1] * 4096 + h[2] * 256 + h[3] * 16 + h[4]
    IN  IF code >= 32 /\ code <= 126 THEN Printable[code - 31]
        ELSE IF code = 9 THEN "\t"
        ELSE IF code = 10 THEN "\n"
        ELSE IF code = 12 THEN "\f"
        ELSE IF code = 13 THEN "\r"
        ELSE "\\u" \o HexChars[h[1] + 1] \o HexChars[h[2] + 1]
                   \o HexChars[h[3] + 1] \o HexChars[h[4] + 1]

\* The control characters U+0000 .. U+001F, with the text JSON.stringify
\* writes for each: \b \t \n \f \r, and \u00xx for the others.
ControlEscapes ==
    [c \in {CodeUnit(<<0, 0, a, b>>) : a \in 0..1, b \in 0..15} |->
        LET h == CHOOSE p \in (0..1) \X (0..15) :
                     CodeUnit(<<0, 0, p[1], p[2]>>) = c
            code == h[1] * 16 + h[2]
        IN  IF code = 8 THEN <<"\\", "b">>
            ELSE IF code = 9 THEN <<"\\", "t">>
            ELSE IF code = 10 THEN <<"\\", "n">>
            ELSE IF code = 12 THEN <<"\\", "f">>
            ELSE IF code = 13 THEN <<"\\", "r">>
            ELSE <<"\\", "u", "0", "0", HexChars[h[1] + 1],
                   HexChars[h[2] + 1]>>]

IsControl(c) == c \in DOMAIN ControlEscapes

\* The surrogate code units U+D800 .. U+DFFF, with the text of their escape.
SurrogateEscapes ==
    [c \in {CodeUnit(<<13, a, b, d>>) : a \in 8..15, b \in 0..15,
                                        d \in 0..15} |->
        LET h == CHOOSE p \in (8..15) \X (0..15) \X (0..15) :
                     CodeUnit(<<13, p[1], p[2], p[3]>>) = c
        IN  <<"\\", "u", "d", HexChars[h[1] + 1], HexChars[h[2] + 1],
              HexChars[h[3] + 1]>>]

IsPlain(c) == \E k \in 1..95 : Printable[k] = c

IsSurrogate(c) == ~IsPlain(c) /\ ~IsControl(c) /\ c \in DOMAIN SurrogateEscapes

IsHighSurrogate(c) ==
    IsSurrogate(c) /\ SurrogateEscapes[c][4] \in {"8", "9", "a", "b"}

IsLowSurrogate(c) == IsSurrogate(c) /\ ~IsHighSurrogate(c)

\* The quoted form of the characters of s from position i on: '"' and '\'
\* are escaped, every control character is escaped, a surrogate that is not
\* half of a pair is escaped, everything else is copied.
RECURSIVE QuoteFrom(_, _)
QuoteFrom(s, i) ==
    IF i > Len(s) THEN <<>>
    ELSE LET c == s[i]
         IN  IF c = "\"" \/ c = "\\" THEN <<"\\", c>> \o QuoteFrom(s, i + 1)
             ELSE IF IsPlain(c) THEN <<c>> \o QuoteFrom(s, i + 1)
             ELSE IF IsControl(c)
             THEN ControlEscapes[c] \o QuoteFrom(s, i + 1)
             ELSE IF IsHighSurrogate(c) /\ i < Len(s)
                        /\ IsLowSurrogate(s[i + 1])
             THEN <<c, s[i + 1]>> \o QuoteFrom(s, i + 2)
             ELSE IF IsSurrogate(c)
             THEN SurrogateEscapes[c] \o QuoteFrom(s, i + 1)
             ELSE <<c>> \o QuoteFrom(s, i + 1)

\* A quoting that escapes nothing.
QuoteCharsRaw(s) == s

QuoteChars(s) == QuoteFrom(s, 1)

\* A digit string is a canonical array index: "0", or digits without a
\* leading zero, below 2^32 - 1.
MaxIndexDigits == <<"4", "2", "9", "4", "9", "6", "7", "2", "9", "4">>

\* Order of digit strings without leading zeros by their numeric value.
RECURSIVE DigitsLess(_, _)
DigitsLess(a, b) ==
    IF Len(a) # Len(b) THEN Len(a) < Len(b)
    ELSE IF a = <<>> THEN FALSE
    ELSE IF Head(a) # Head(b) THEN DigitVal(Head(a)) < DigitVal(Head(b))
    ELSE DigitsLess(Tail(a), Tail(b))

IsIndexKey(k) ==
    /\ k # <<>>
    /\ \A n \in 1..Len(k) : IsDigit(k[n])
    /\ (Len(k) > 1 => k[1] # "0")
    /\ (DigitsLess(k, MaxIndexDigits) \/ k = MaxIndexDigits)

\* The members of an object in the order of its own property keys: the
\* array-index keys in ascending numeric order, then the other keys in the
\* order they were first added; a key added again keeps its place and takes
\* the later value.
RECURSIVE PutMember(_, _)
PutMember(ms, m) ==
    IF ms = <<>> THEN <<m>>
    ELSE IF Head(ms).k = m.k THEN <<m>> \o Tail(ms)
    ELSE IF IsIndexKey(m.k)
              /\ (~IsIndexKey(Head(ms).k) \/ DigitsLess(m.k, Head(ms).k))
    THEN <<m>> \o ms
    ELSE <<Head(ms)>> \o PutMember(Tail(ms), m)

RECURSIVE OwnMembers(_, _)
OwnMembers(ms, acc) ==
    IF ms = <<>> THEN acc
    ELSE OwnMembers(Tail(ms), PutMember(acc, Head(ms)))

\* Number::toString of m * 10^e, for m > 0 not divisible by 10: plain
\* digits up to 21 integer digits, a fraction down to 10^-6, and the
\* exponent form beyond these.
PositiveToString(m, e) ==
    LET ds == NatDigits(m)
        k == Len(ds)
        n == k + e
        Zeros(z) == [x \in 1..z |-> "0"]
        ExpDigits == NatDigits(IF n - 1 < 0 THEN 1 - n ELSE n - 1)
        ExpSign == IF n - 1 < 0 THEN "-" ELSE "+"
    IN  IF k <= n /\ n <= 21 THEN ds \o Zeros(n - k)
        ELSE IF 0 < n /\ n <= 21
        THEN SubSeq(ds, 1, n) \o <<".">> \o SubSeq(ds, n + 1, k)
        ELSE IF 0 - 6 < n /\ n <= 0
        THEN <<"0", ".">> \o Zeros(0 - n) \o ds
        ELSE IF k = 1 THEN ds \o <<"e", ExpSign>> \o ExpDigits
        ELSE <<ds[1], ".">> \o SubSeq(ds, 2, k) \o <<"e", ExpSign>>
                 \o ExpDigits

\* JSON.stringify(v)
RECURSIVE JSONStringify(_)
RECURSIVE StringifyElements(_)
RECURSIVE StringifyMembers(_)
JSONStringify(v) ==
    CASE v.t = "null" -> <<"n", "u", "l", "l">>
      [] v.t = "bool" -> IF v.b THEN <<"t", "r", "u", "e">>
                         ELSE <<"f", "a", "l", "s", "e">>
      [] v.t = "num"  -> IF v.n < 0 THEN <<"-">> \o NatDigits(0 - v.n)
                         ELSE NatDigits(v.n)
      [] v.t = "dec"  -> IF v.m < 0
                         THEN <<"-">> \o PositiveToString(0 - v.m, v.e)
                         ELSE PositiveToString(v.m, v.e)
      [] v.t = "inf"  -> <<"n", "u", "l", "l">>
      [] v.t = "str"  -> <<"\"">> \o QuoteChars(v.s) \o <<"\"">>
      [] v.t = "arr"  -> <<"[">> \o StringifyElements(v.a) \o <<"]">>
      [] v.t = "obj"  ->
           <<"{">> \o StringifyMembers(OwnMembers(v.m, <<>>)) \o <<"}">>

\* The elements of an array, separated by commas.
StringifyElements(a) ==
    IF a = <<>> THEN <<>>
    ELSE IF Len(a) = 1 THEN JSONStringify(a[1])
    ELSE JSONStringify(a[1]) \o <<",">> \o StringifyElements(Tail(a))

\* The members of an object, "key":value, separated by commas.
StringifyMembers(ms) ==
    IF ms = <<>> THEN <<>>
    ELSE <<"\"">> \o QuoteChars(ms[1].k) \o <<"\"", ":">>
             \o JSONStringify(ms[1].v)
             \o (IF Len(ms) = 1 THEN <<>>
                 ELSE <<",">> \o StringifyMembers(Tail(ms)))

\* A failed parse (JSON.parse throws SyntaxError).
ParseFail == [ok |-> FALSE]

\* JSON white space: space, tab, line feed, carriage return.
IsWs(c) == c = " " \/ c = "\t" \/ c = "\n" \/ c = "\r"

\* The first position at or after i that holds no white space.
RECURSIVE SkipWs(_, _)
SkipWs(s, i) ==
    IF i <= Len(s) /\ IsWs(s[i]) THEN SkipWs(s, i + 1) ELSE i

\* s holds the characters of lit from position i on.
HasLiteral(s, i, lit) ==
    /\ i + Len(lit) - 1 <= Len(s)
    /\ \A k \in 1..Len(lit) : s[i + k - 1] = lit[k]

\* The digits of s from position i on: [n, next], with acc the value so far.
\* (They are the digits of an exponent: from 10^8 on the value read no longer
\* matters, the number being 0 or beyond every double, and is kept as it is.)
RECURSIVE ParseDigits(_, _, _)
ParseDigits(s, i, acc) ==
    IF i <= Len(s) /\ IsDigit(s[i])
    THEN ParseDigits(s, i + 1, IF acc >= 100000000 THEN acc
                               ELSE acc * 10 + DigitVal(s[i]))
    ELSE [n |-> acc, next |-> i]

\* The digits of s from position i on as a mantissa without trailing zeros:
\* [m, z, len, next], the digits read being those of m * 10^z.
RECURSIVE ParseMantissa(_, _, _, _, _)
ParseMantissa(s, i, m, z, len) ==
    IF i <= Len(s) /\ IsDigit(s[i])
    THEN IF s[i] = "0"
         THEN ParseMantissa(s, i + 1, m, IF m = 0 THEN 0 ELSE z + 1, len + 1)
         ELSE ParseMantissa(s, i + 1, m * (10 ^ (z + 1)) + DigitVal(s[i]),
                            0, len + 1)
    ELSE [m |-> m, z |-> z, len |-> len, next |-> i]

(***************************************************************************)
(* A number is a double.  The spacing of the doubles below 2^-1022 is      *)
(* 2^-1074: a decimal below 10^-315 is rounded to a multiple k * 2^-1074,  *)
(* and the number read is written with the fewest digits that read back as *)
(* the same k.  Both are computed exactly, on naturals kept as limbs of 8  *)
(* decimal digits, the most significant first.                             *)
(***************************************************************************)
\* 2^1074
Pow2Limbs ==
    <<2024, 2253307, 31061835, 24953467, 18917307, 4955664,
      97641421, 18356901, 35802743, 3395679, 95346891, 96038370,
      14371244, 95187077, 86431681, 19113898, 8737385, 79347686,
      70133999, 40738509, 92151742, 42765663, 61364466, 90774209,
      32163412, 39767678, 47274506, 85620074, 83424692, 69861810,
      33556491, 59556340, 81005651, 23587695, 52333414, 61523050,
      25321863, 27508646, 626330, 77077410, 93494784>>

\* 5^1074
Pow5Limbs ==
    <<4940656, 45841246, 54417656, 87928682, 21372365, 5980261,
      43247644, 25585682, 50067550, 72702087, 51865299, 83636163,
      59923797, 96564695, 44571773, 9266567, 10355939, 79639877,
      47960107, 81878126, 30071319, 3114045, 27845817, 16784898,
      21036887, 18636056, 99873072, 30500063, 87409153, 56498438,
      73124733, 97273169, 61514003, 17153853, 98074126, 23856559,
      11710266, 58556686, 76818703, 95603106, 24931945, 27159149,
      24553293, 5456544, 40112748, 1297099, 99541931, 98940908,
      4165633, 24524757, 14786901, 47267801, 59355238, 61155013,
      48035264, 93472019, 37902681, 7107491, 70333222, 68447533,
      35720832, 43193609, 23828934, 58368060, 10601150, 61698097,
      53078342, 27731832, 92479049, 82524730, 77637592, 72478746,
      56084778, 20373446, 96995336, 47017972, 67771758, 51256605,
      51199131, 50489110, 14510378, 62738167, 25095583, 73897335,
      98993664, 80994116, 42057026, 37090279, 24276754, 45652290,
      87538682, 50641971, 82655334, 47265625>>

\* The limbs i..1 of r * 10 + a * d + c, for limbs r and a of one length, a
\* digit d and a carry c.  (The carry is looked at first, so that it is
\* computed before the limbs above it are; likewise r in MulLimbs.)
RECURSIVE MulAddLimbs(_, _, _, _, _)
MulAddLimbs(r, a, d, i, c) ==
    IF i = 0 \/ c < 0 THEN <<>>
    ELSE MulAddLimbs(r, a, d, i - 1,
                     (r[i] * 10 + a[i] * d + c) \div 100000000)
             \o <<(r[i] * 10 + a[i] * d + c) % 100000000>>

\* r * 10^Len(ds) + a * (the natural number of digits ds)
RECURSIVE MulLimbs(_, _, _)
MulLimbs(a, ds, r) ==
    IF r = <<>> \/ ds = <<>> THEN r
    ELSE MulLimbs(a, Tail(ds),
                  MulAddLimbs(r, a, DigitVal(Head(ds)), Len(a), 0))

\* The product of limbs a and a natural number n below 10^10.
TimesLimbs(a, n) ==
    MulLimbs(<<0, 0>> \o a, NatDigits(n), [i \in 1..(Len(a) + 2) |-> 0])

\* The decimal digit of x at position p, the units being position 0.
DigitAt(x, p) ==
    IF p \div 8 >= Len(x) THEN 0
    ELSE (x[Len(x) - (p \div 8)] \div (10 ^ (p % 8))) % 10

\* The number of the n digits of x from position p upwards.
RECURSIVE IntAt(_, _, _)
IntAt(x, p, n) ==
    IF n = 0 THEN 0 ELSE DigitAt(x, p) + 10 * IntAt(x, p + 1, n - 1)

\* x / 10^p rounded to the nearest natural number, for p > 0.  (Half-way
\* cases do not occur: 5^p would have to divide a mantissa of 9 digits, or
\* 2^(p-1) a k below 2^28.)
RoundAt(x, p, n) ==
    IntAt(x, p, n) + (IF DigitAt(x, p - 1) >= 5 THEN 1 ELSE 0)

\* The multiple of 2^-1074 nearest to m * 10^e, for m * 10^e < 10^-315.
Ulps(m, e) == RoundAt(TimesLimbs(Pow2Limbs, m), 0 - e, 10)

\* The decimal [m, e] of the fewest digits, L or more, that reads back as
\* k * 2^-1074, where c = k * 5^1074 has D digits: that is, c * 10^-1074
\* rounded to the fewest digits that do.
RECURSIVE ShortestDecimal(_, _, _, _)
ShortestDecimal(k, c, D, L) ==
    IF Ulps(RoundAt(c, D - L, L), D - L - 1074) # k
    THEN ShortestDecimal(k, c, D, L + 1)
    ELSE IF RoundAt(c, D - L, L) % 10 = 0
    THEN [m |-> RoundAt(c, D - L, L) \div 10, e |-> D - L - 1073]
    ELSE [m |-> RoundAt(c, D - L, L), e |-> D - L - 1074]

\* Number::toString of the double k * 2^-1074, for 0 < k < 2^28, as the
\* decimal [m, e] it prints.
SubnormalToDecimal(k) ==
    LET Top(c) == CHOOSE i \in 1..Len(c) :
                      c[i] # 0 /\ \A j \in 1..(i - 1) : c[j] = 0
        Digits(c, i) == (Len(c) - i) * 8 + Len(NatDigits(c[i]))
        From(c) == ShortestDecimal(k, c, Digits(c, Top(c)), 1)
    IN  From(TimesLimbs(Pow5Limbs, k))

\* The double nearest to m * 10^e, for m not divisible by 10 and of k digits,
\* in the form the model keeps it: Infinity beyond the largest double
\* (1.7976931348623157e308), 0 below half the smallest (2^-1075 =
\* 2.4703282292...e-324), a JNum when it is an integer below 10^9, a JDec
\* otherwise.  From 10^-315 upwards a decimal of 9 digits is what the double
\* nearest to it prints.
DoubleOf(m, e, k) ==
    LET n == k + e
        a == IF m < 0 THEN 0 - m ELSE m
        pad == a * (10 ^ (9 - k))
        Signed(d) == JDec(IF m < 0 THEN 0 - d.m ELSE d.m, d.e)
    IN  IF n >= 310 \/ (n = 309 /\ pad >= 179769314) THEN JInf(m < 0)
        ELSE IF n <= 0 - 324 \/ (n = 0 - 323 /\ pad <= 247032822)
        THEN JNum(0)
        ELSE IF n <= 0 - 315 THEN Signed(SubnormalToDecimal(Ulps(a, e)))
        ELSE IF e >= 0 /\ n <= 9 THEN JNum(m * (10 ^ e))
        ELSE JDec(m, e)

\* The number m * 10^e as JSON.parse returns it.  (-0 is the number 0: the
\* two are === and both are written "0".)
RECURSIVE NumberOf(_, _)
NumberOf(m, e) ==
    IF m = 0 THEN JNum(0)
    ELSE IF m % 10 = 0 THEN NumberOf(m \div 10, e + 1)
    ELSE DoubleOf(m, e, Len(NatDigits(IF m < 0 THEN 0 - m ELSE m)))

\* The number read once its exponent is known: frac holds the digits before
\* the exponent, exp the exponent's digits, which start at position q.
NumberRead(neg, frac, hasExp, minus, q, exp) ==
    IF hasExp /\ exp.next = q THEN ParseFail
    ELSE [ok |-> TRUE,
          v |-> NumberOf(IF neg THEN 0 - frac.m ELSE frac.m,
                         (IF minus THEN 0 - exp.n ELSE exp.n)
                             + frac.z - frac.len),
          next |-> exp.next]

\* The exponent part, after the digits frac of the integer and the fraction.
ParseExponent(s, neg, dot, frac) ==
    LET p == frac.next
        hasExp == p <= Len(s) /\ (s[p] = "e" \/ s[p] = "E")
        signed == hasExp /\ p + 1 <= Len(s)
                     /\ (s[p + 1] = "+" \/ s[p + 1] = "-")
        q == IF signed THEN p + 2 ELSE p + 1
    IN  IF dot /\ frac.len = 0 THEN ParseFail
        ELSE NumberRead(neg, frac, hasExp, signed /\ s[p + 1] = "-", q,
                        IF hasExp THEN ParseDigits(s, q, 0)
                        ELSE [n |-> 0, next |-> p])

\* The fraction part, after the digits int of the integer.
ParseFraction(s, neg, int) ==
    IF int.next <= Len(s) /\ s[int.next] = "."
    THEN ParseExponent(s, neg, TRUE,
                       ParseMantissa(s, int.next + 1, int.m, int.z, 0))
    ELSE ParseExponent(s, neg, FALSE,
                       [m |-> int.m, z |-> int.z, len |-> 0,
                        next |-> int.next])

\* A number from position i on:
\*   -? (0 | [1-9][0-9]*) (. [0-9]+)? ([eE] [+-]? [0-9]+)?
ParseNumber(s, i) ==
    LET neg == i <= Len(s) /\ s[i] = "-"
        j == IF neg THEN i + 1 ELSE i
    IN  IF ~(j <= Len(s) /\ IsDigit(s[j])) THEN ParseFail
        ELSE ParseFraction(s, neg,
                 IF s[j] = "0"
                 THEN [m |-> 0, z |-> 0, len |-> 1, next |-> j + 1]
                 ELSE ParseMantissa(s, j, 0, 0, 0))

\* The characters of a string whose opening quote precedes position i, up
\* to the closing quote.  The escapes are \" \\ \/ \b \f \n \r \t and
\* \uXXXX; a control character is not allowed in a string.
RECURSIVE ParseChars(_, _, _)
ParseChars(s, i, acc) ==
    IF i > Len(s) THEN ParseFail
    ELSE IF s[i] = "\"" THEN [ok |-> TRUE, v |-> JStr(acc), next |-> i + 1]
    ELSE IF s[i] = "\\"
    THEN IF i + 1 > Len(s) THEN ParseFail
         ELSE LET c == s[i + 1]
              IN  IF c = "\"" \/ c = "\\" \/ c = "/"
                  THEN ParseChars(s, i + 2, Append(acc, c))
                  ELSE IF c = "b"
                  THEN ParseChars(s, i + 2,
                                  Append(acc, CodeUnit(<<0, 0, 0, 8>>)))
                  ELSE IF c = "f" THEN ParseChars(s, i + 2, Append(acc, "\f"))
                  ELSE IF c = "n" THEN ParseChars(s, i + 2, Append(acc, "\n"))
                  ELSE IF c = "r" THEN ParseChars(s, i + 2, Append(acc, "\r"))
                  ELSE IF c = "t" THEN ParseChars(s, i + 2, Append(acc, "\t"))
                  ELSE IF c = "u" /\ i + 5 <= Len(s)
                             /\ \A k \in 2..5 : IsHex(s[i + k])
                  THEN ParseChars(s, i + 6,
                           Append(acc, CodeUnit([k \in 1..4 |->
                                                   HexVal(s[i + 1 + k])])))
                  ELSE ParseFail
    ELSE IF IsControl(s[i]) THEN ParseFail
    ELSE ParseChars(s, i + 1, Append(acc, s[i]))

\* A value from position i on (white space before it skipped by the caller):
\* [ok, v, next].
RECURSIVE ParseValue(_, _)
RECURSIVE ParseElements(_, _, _)
RECURSIVE ParseMembers(_, _, _)
ParseValue(s, i) ==
    IF i > Len(s) THEN ParseFail
    ELSE IF HasLiteral(s, i, <<"n", "u", "l", "l">>)
    THEN [ok |-> TRUE, v |-> JNull, next |-> i + 4]
    ELSE IF HasLiteral(s, i, <<"t", "r", "u", "e">>)
    THEN [ok |-> TRUE, v |-> JBool(TRUE), next |-> i + 4]
    ELSE IF HasLiteral(s, i, <<"f", "a", "l", "s", "e">>)
    THEN [ok |-> TRUE, v |-> JBool(FALSE), next |-> i + 5]
    ELSE IF s[i] = "\"" THEN ParseChars(s, i + 1, <<>>)
    ELSE IF s[i] = "["
    THEN LET j == SkipWs(s, i + 1)
         IN  IF j <= Len(s) /\ s[j] = "]"
             THEN [ok |-> TRUE, v |-> JArr(<<>>), next |-> j + 1]
             ELSE ParseElements(s, j, <<>>)
    ELSE IF s[i] = "{"
    THEN LET j == SkipWs(s, i + 1)
         IN  IF j <= Len(s) /\ s[j] = "}"
             THEN [ok |-> TRUE, v |-> JObj(<<>>), next |-> j + 1]
             ELSE ParseMembers(s, j, <<>>)
    ELSE ParseNumber(s, i)

\* The elements of an array from position i on, up to the closing bracket.
ParseElements(s, i, acc) ==
    LET Rest(r) ==
            IF ~r.ok THEN ParseFail
            ELSE LET j == SkipWs(s, r.next)
                 IN  IF j > Len(s) THEN ParseFail
                     ELSE IF s[j] = "]"
                     THEN [ok |-> TRUE, v |-> JArr(Append(acc, r.v)),
                           next |-> j + 1]
                     ELSE IF s[j] = ","
                     THEN ParseElements(s, SkipWs(s, j + 1),
                                        Append(acc, r.v))
                     ELSE ParseFail
    IN  Rest(ParseValue(s, i))

\* The members of an object from position i on, up to the closing brace:
\* "key" : value, separated by commas; each is added to the object in turn.
ParseMembers(s, i, acc) ==
    LET Rest(k, r) ==
            IF ~r.ok THEN ParseFail
            ELSE LET j == SkipWs(s, r.next)
                     ms == PutMember(acc, [k |-> k.v.s, v |-> r.v])
                 IN  IF j > Len(s) THEN ParseFail
                     ELSE IF s[j] = "}"
                     THEN [ok |-> TRUE, v |-> JObj(ms), next |-> j + 1]
                     ELSE IF s[j] = ","
                     THEN ParseMembers(s, SkipWs(s, j + 1), ms)
                     ELSE ParseFail
        Member(k) ==
            IF ~k.ok THEN ParseFail
            ELSE LET c == SkipWs(s, k.next)
                 IN  IF ~(c <= Len(s) /\ s[c] = ":") THEN ParseFail
                     ELSE Rest(k, ParseValue(s, SkipWs(s, c + 1)))
    IN  IF ~(i <= Len(s) /\ s[i] = "\"") THEN ParseFail
        ELSE Member(ParseChars(s, i + 1, <<>>))

\* JSON.parse(s): [ok |-> TRUE, v |-> value], or ParseFail when it throws.
JSONParse(s) ==
    LET Whole(r) == IF r.ok /\ SkipWs(s, r.next) = Len(s) + 1
                    THEN [ok |-> TRUE, v |-> r.v]
                    ELSE ParseFail
    IN  Whole(ParseValue(s, SkipWs(s, 1)))

(***************************************************************************)
(* Data of useLocalStorage.                                                *)
(***************************************************************************)

\* Keys of the durable store.
Keys == {"k1", "k2"}

\* Hook instances.
Instances == {1, 2}

\* JSON values used as initial values, literals and stored values; the falsy
\* ones (null, false, 0, "") are among them.
JVals ==
    {JNull, JBool(FALSE), JNum(0), JStr(<<>>),
     JArr(<<JNum(1), JStr(<<"a">>)>>)}

\* Values of every JSON type for the round trip through the store: strings
\* with characters that need escaping (quote, backslash, control characters),
\* negative, multi-digit and fractional numbers (1.5), null, a boolean, empty
\* and nested arrays, and objects like the tests'
\* { name: "test", nested: { value: 42 }, array: [1, 2, 3] }.
RoundTripVals ==
    {JNull, JBool(TRUE), JNum(42), JNum(0 - 17), JDec(15, 0 - 1),
     JStr(<<"a", "\"", "\\", "\n", " ", "n">>),
     JStr(<<"\t", "\r", "\\u0001">>),
     JStr(<<"n", "u", "l", "l">>),
     JArr(<<JNum(1), JNum(2), JNum(3)>>),
     JArr(<<JArr(<<>>), JArr(<<JStr(<<"]">>)>>), JBool(FALSE)>>),
     JObj(<<[k |-> <<"n", "a", "m", "e">>, v |-> JStr(<<"t", "e", "s", "t">>)],
            [k |-> <<"n", "e", "s", "t", "e", "d">>,
             v |-> JObj(<<[k |-> <<"v", "a", "l", "u", "e">>,
                           v |-> JNum(42)]>>)],
            [k |-> <<"a", "r", "r", "a", "y">>,
             v |-> JArr(<<JNum(1), JNum(2), JNum(3)>>)]>>),
     JObj(<<[k |-> <<"a", "\"">>, v |-> JArr(<<JObj(<<>>), JBool(TRUE)>>)]>>)}

\* Stored strings that JSON.parse rejects: the empty string, the tests'
\* "invalid-json", and a truncated array.
CorruptStrings ==
    {<<>>,
     <<"i", "n", "v", "a", "l", "i", "d", "-", "j", "s", "o", "n">>,
     <<"[", "1", ",">>}

\* A stored string that parses but is not what JSON.stringify writes.
PaddedStrings == {<<" ", "0">>}

\* localStorage.getItem's results: null (absent) or a string.
Absent == [present |-> FALSE, s |-> <<>>]
Item(s) == [present |-> TRUE, s |-> s]

StoredEntries ==
    {Absent}
        \cup {Item(JSONStringify(v)) : v \in JVals}
        \cup {Item(s) : s \in CorruptStrings \cup PaddedStrings}

\* A StorageEvent, as far as the hook reads it: e.key and e.newValue (null
\* or a string).
StorageEvent(k, newValue) == [key |-> k, newValue |-> newValue]

\* What another browsing context leaves under a key: a removal (newValue
\* null), the serialization of a value (null and an array here), or a string
\* JSON.parse rejects (the empty string and "invalid-json").
EventPayloads ==
    {Absent}
        \cup {Item(JSONStringify(v)) :
                 v \in {JNull, JArr(<<JNum(1), JStr(<<"a">>)>>)}}
        \cup {Item(s) : s \in {<<>>,
                 <<"i", "n", "v", "a", "l", "i", "d", "-", "j", "s", "o", "n">>}}

\* Initial values and setValue arguments of the runs with two instances.
ContextInitials == {JNull}
ContextSetValueArgs ==
    {[kind |-> "literal", v |-> JStr(<<>>)],
     [kind |-> "literal", v |-> JArr(<<JNum(1), JStr(<<"a">>)>>)]}

\* The windows (tabs) of the origin; they share one localStorage.
Windows == {"A", "B"}

\* No 'storage' event is queued for any window.
NoEvents == [w \in Windows |-> <<>>]

\* The setValue argument of the runs over the life of two instances.
LifetimeSetValueArgs ==
    {[kind |-> "literal", v |-> JArr(<<JNum(1), JStr(<<"a">>)>>)]}

\* The setValue arguments of the round trip through the store.
RoundTripSetValueArgs ==
    {[kind |-> "literal", v |-> v] : v \in RoundTripVals}

\* Initial values and setValue arguments of the runs with 'storage' events.
EventInitials == {JNull, JNum(0)}
EventSetValueArgs ==
    {[kind |-> "literal", v |-> JStr(<<>>)], [kind |-> "updater", f |-> "inc"]}

\* A hook instance that has not been rendered yet.
Closed == [status |-> "closed"]

\* No call yet.
NoCall == [op |-> "none"]

VARIABLES
    hasWindow,   \* typeof window !== 'undefined' (FALSE: server rendering)
    store,       \* window.localStorage: key -> Absent or Item(string)
    hook,        \* per instance: status, key, storedValue (the React state),
                 \*   seen (the storedValue the setValue closure captured),
                 \*   effect (the effect of the last render has yet to run)
    listeners,   \* 'storage' listeners on window: [inst, key]
    windowOf,    \* the window (browsing context) each instance renders in
    events,      \* per window: 'storage' events queued for it, not yet
                 \*   dispatched
    lastCall,    \* history: the last call and its inputs
    console,     \* history: console calls of the last step
    ops,         \* history: localStorage calls of the last step
    everRejected \* history: the store has rejected a write of setValue

svars == <<hasWindow, store, hook, listeners, windowOf, events, lastCall,
           console, ops,
           everRejected>>

(***************************************************************************)
(* Data of useToggle.                                                      *)
(***************************************************************************)

\* The calls of one batch (one act()) and the toggle() calls counted.
MaxBatch == 2
MaxToggles == 4

\* The argument of useToggle: none, or a boolean.
NoArg == [given |-> FALSE, b |-> FALSE]
Arg(b) == [given |-> TRUE, b |-> b]
ToggleArgs == {NoArg, Arg(TRUE), Arg(FALSE)}

\* A state update handed to the setter of useState: a value, or the
\* function (prev) => !prev.
SetTo(b) == [fn |-> "const", b |-> b]
Negate == [fn |-> "not", b |-> FALSE]

VARIABLES
    tArg,        \* the argument useToggle was first rendered with
    tValue,      \* the state `value` of the last render
    tQueue,      \* the calls of the current batch, with the state update
                 \*   each queued: [call, arg, upd]
    tToggles,    \* history: toggle() calls since the first render
    tOnlyToggle, \* history: toggle() is the only action called so far
    tLast        \* history: the last step

tvars == <<tArg, tValue, tQueue, tToggles, tOnlyToggle, tLast>>

vars == <<dvars, svars, tvars>>

\* The toggle variables while another hook runs.
ToggleIdle ==
    /\ tArg = NoArg
    /\ tValue = FALSE
    /\ tQueue = <<>>
    /\ tToggles = 0
    /\ tOnlyToggle = TRUE
    /\ tLast = [op |-> "idle"]

\* The storage variables while only useDebounce runs.
StorageIdle ==
    /\ hasWindow = TRUE
    /\ store = [k \in Keys |-> Absent]
    /\ hook = [i \in Instances |-> Closed]
    /\ listeners = {}
    /\ windowOf = [i \in Instances |-> "A"]
    /\ events = NoEvents
    /\ lastCall = NoCall
    /\ console = <<>>
    /\ ops = <<>>
    /\ everRejected = FALSE

\* The debounce variables while only useLocalStorage runs.
DebounceIdle ==
    /\ now = 0
    /\ mounted = FALSE
    /\ value = "a"
    /\ delay = 0
    /\ debouncedValue = "a"
    /\ timers = {}
    /\ handler = 1
    /\ effectPending = FALSE
    /\ cleanupPending = FALSE
    /\ deps = [value |-> "a", delay |-> 0]
    /\ effectAt = 0
    /\ valueAt = 0
    /\ outAtEffect = "a"
    /\ fires = 0
    /\ prev = NoEffect
    /\ lastStep = "idle"

(***************************************************************************)
(* PART I -- useDebounce                                                   *)
(***************************************************************************)

\* A timeout id no pending timer and no live handle uses.
FreshId(ts, h) ==
    CHOOSE i \in 1..(Cardinality(ts) + 2) :
        /\ i # h
        /\ \A t \in ts : t.id # i

\* setTimeout(() => setDebouncedValue(v), d), called at time n.
SetTimeout(ts, id, n, v, d) == ts \cup {[id |-> id, due |-> n + d, val |-> v]}

\* clearTimeout(id): cancels the pending timer with that id, if any.
ClearTimeout(ts, id) == {t \in ts : t.id # id}

\* The effect's cleanup: () => { clearTimeout(handler); }
EffectCleanupLeaky(ts, h) == ts

EffectCleanup(ts, h) == ClearTimeout(ts, h)

\* The effect body: const handler = setTimeout(() => {...}, delay).  It only
\* schedules; the state (out) is left as it is, whatever the delay.
EffectBodyZeroSync(ts, id, n, v, d, out) ==
    IF d = 0
    THEN [timers |-> ts, out |-> v]
    ELSE [timers |-> SetTimeout(ts, id, n, v, d), out |-> out]

EffectBodyNoDelay(ts, id, n, v, d, out) ==
    [timers |-> SetTimeout(ts, id, n, v, 0), out |-> out]

EffectBody(ts, id, n, v, d, out) ==
    [timers |-> SetTimeout(ts, id, n, v, d), out |-> out]

\* The effect's dependency array [value, delay]: the effect re-runs when
\* either differs from the previous render's.
DepsChangedValueOnly(v, d) == v # value

DepsChangedAlways(v, d) == TRUE

DepsChanged(v, d) == v # value \/ d # delay

\* The value the timer callback passes to setDebouncedValue: the value the
\* effect closed over.
CallbackValueStale(t) == debouncedValue

CallbackValue(t) == t.val

\* renderHook(() => useDebounce(v, d)): useState(value) and the first effect.
InitDebounce ==
    /\ now = 0
    /\ mounted = TRUE
    /\ value \in Values
    /\ delay \in Delays
    /\ debouncedValue = value
    /\ handler = 1
    /\ effectPending = FALSE
    /\ cleanupPending = FALSE
    /\ deps = [value |-> value, delay |-> delay]
    /\ timers = EffectBody({}, 1, 0, value, delay, value).timers
    /\ effectAt = 0
    /\ valueAt = 0
    /\ outAtEffect = value
    /\ fires = 0
    /\ prev = NoEffect
    /\ lastStep = "mount"
    /\ StorageIdle
    /\ ToggleIdle

\* A re-render with props (v, d).  When a dep changed ([value, delay]) the
\* render leaves the effect to be run after the commit: the cleanup of the
\* previous effect, then the effect body.  (React runs a pending effect
\* before it renders the component again.)
Rerender(v, d) ==
    /\ mounted
    /\ ~effectPending
    /\ value' = v
    /\ delay' = d
    /\ IF ~DepsChanged(v, d)
       THEN /\ UNCHANGED <<effectPending, valueAt>>
            /\ lastStep' = "rerender-same"
       ELSE /\ effectPending' = TRUE
            /\ valueAt' = IF v = value THEN valueAt ELSE now
            /\ lastStep' = "rerender-change"
    /\ UNCHANGED <<now, mounted, debouncedValue, timers, handler,
                   cleanupPending, deps, effectAt, outAtEffect, fires, prev>>
    /\ UNCHANGED <<svars, tvars>>

\* The effect of the latest render runs: the previous effect's cleanup,
\*   return () => { clearTimeout(handler); }
\* then the body, which schedules the timer for the props of that render.
\* React runs it in a task after the commit; a timer that is due can fire
\* before it does.
RunEffect ==
    /\ mounted
    /\ effectPending
    /\ LET cleaned == EffectCleanup(timers, handler)
           id == FreshId(cleaned, handler)
           eff == EffectBody(cleaned, id, now, value, delay, debouncedValue)
       IN  /\ timers' = eff.timers
           /\ debouncedValue' = eff.out
           /\ handler' = id
    /\ effectPending' = FALSE
    /\ deps' = [value |-> value, delay |-> delay]
    /\ effectAt' = now
    /\ outAtEffect' = debouncedValue
    /\ fires' = 0
    /\ prev' = [t |-> effectAt, v |-> deps.value, d |-> deps.delay,
                out |-> outAtEffect]
    /\ lastStep' = "effect"
    /\ UNCHANGED <<now, mounted, value, delay, cleanupPending, valueAt>>
    /\ UNCHANGED <<svars, tvars>>

\* A due timer's callback runs: setDebouncedValue(value) with the value the
\* effect closed over.  The re-render it causes has unchanged deps.  Once the
\* component is unmounted React ignores the update: the state is as it was.
Fire ==
    /\ \E t \in timers :
        /\ t.due <= now
        /\ timers' = timers \ {t}
        /\ debouncedValue' = IF mounted THEN CallbackValue(t)
                              ELSE debouncedValue
    /\ fires' = fires + 1
    /\ lastStep' = "fire"
    /\ UNCHANGED <<now, mounted, value, delay, handler, effectPending,
                   cleanupPending, deps, effectAt, valueAt, outAtEffect, prev>>
    /\ UNCHANGED <<svars, tvars>>

\* The clock advances one tick.  The host runs a timer when it falls due, so
\* time does not pass a pending timer's due time; a pending effect, and a
\* pending cleanup, runs within the tick of its commit (the task that runs
\* it is queued at the commit, with no delay).
Tick ==
    /\ now < MaxTime
    /\ ~effectPending
    /\ ~cleanupPending
    /\ \A t \in timers : t.due > now
    /\ now' = now + 1
    /\ lastStep' = "tick"
    /\ UNCHANGED <<mounted, value, delay, debouncedValue, timers, handler,
                   effectPending, cleanupPending, deps, effectAt, valueAt,
                   outAtEffect, fires, prev>>
    /\ UNCHANGED <<svars, tvars>>

\* unmount(): the commit removes the component and leaves the cleanup of
\* its effect to be run after it.  (React runs a pending effect before it
\* unmounts the component.)
Unmount ==
    /\ mounted
    /\ ~effectPending
    /\ mounted' = FALSE
    /\ cleanupPending' = TRUE
    /\ lastStep' = "unmount"
    /\ UNCHANGED <<now, value, delay, debouncedValue, timers, handler,
                   effectPending, deps, effectAt, valueAt, outAtEffect, fires,
                   prev>>
    /\ UNCHANGED <<svars, tvars>>

\* The cleanup of the unmounted component's effect runs:
\*   return () => { clearTimeout(handler); }
\* React runs it after the commit, as it runs an effect; a timer that is due
\* can fire before it does.
RunCleanup ==
    /\ ~mounted
    /\ cleanupPending
    /\ cleanupPending' = FALSE
    /\ timers' = EffectCleanup(timers, handler)
    /\ lastStep' = "cleanup"
    /\ UNCHANGED <<now, mounted, value, delay, debouncedValue, handler,
                   effectPending, deps, effectAt, valueAt, outAtEffect, fires,
                   prev>>
    /\ UNCHANGED <<svars, tvars>>

NextDebounce ==
    \/ \E v \in Values, d \in Delays : Rerender(v, d)
    \/ RunEffect
    \/ Fire
    \/ Tick
    \/ Unmount
    \/ RunCleanup

\* The runs checked for liveness: the inputs change while the timer they
\* schedule falls due within the clock's range, so that the bound on the
\* clock never keeps a pending timer from firing.
NextDebounceLive ==
    \/ \E v \in LiveValues, d \in LiveDelays :
            /\ now + d <= MaxTime
            /\ Rerender(v, d)
    \/ RunEffect
    \/ Fire
    \/ Tick
    \/ Unmount
    \/ RunCleanup

(***************************************************************************)
(* PART II -- useLocalStorage: the hook's state machine.                   *)
(***************************************************************************)

\* localStorage.getItem(key)
GetItem(st, k) == st[k]

\* localStorage.setItem(key, s), when the store accepts the write.
SetItem(st, k, s) == [st EXCEPT ![k] = Item(s)]

\* JavaScript truthiness of getItem's result: null and "" are falsy.
Truthy(item) == item.present /\ item.s # <<>>

\* The errors the hook's try blocks catch: JSON.parse throws a SyntaxError,
\* a store that is full throws on setItem.
SyntaxError == "SyntaxError"
QuotaExceededError == "QuotaExceededError"

\* console.log(error), the statement of each of the three catch blocks.
ConsoleLog(error) == [method |-> "log", args |-> <<error>>]

\* The lazy initializer of useState, in a browser:
\*   try { const item = window.localStorage.getItem(key);
\*         return item ? JSON.parse(item) : initialValue; }
\*   catch (error) { console.log(error); return initialValue; }
\* Result: the value, the console calls made, and whether an exception
\* leaves the initializer.
ReadInitialFalsyDefault(item, k, initialValue) ==
    LET r == IF Truthy(item) THEN JSONParse(item.s) ELSE ParseFail
        falsy == r.ok /\ r.v \in {JNull, JBool(FALSE), JNum(0), JStr(<<>>)}
    IN  IF ~Truthy(item)
        THEN [value |-> initialValue, logged |-> <<>>, threw |-> FALSE]
        ELSE IF ~r.ok
        THEN [value |-> initialValue, logged |-> <<ConsoleLog(SyntaxError)>>,
              threw |-> FALSE]
        ELSE [value |-> IF falsy THEN initialValue ELSE r.v,
              logged |-> <<>>, threw |-> FALSE]

ReadInitial(item, k, initialValue) ==
    IF ~Truthy(item)
    THEN [value |-> initialValue, logged |-> <<>>, threw |-> FALSE]
    ELSE LET r == JSONParse(item.s)
         IN  IF r.ok THEN [value |-> r.v, logged |-> <<>>, threw |-> FALSE]
             ELSE [value |-> initialValue, logged |-> <<ConsoleLog(SyntaxError)>>,
                   threw |-> FALSE]

\* The guard of the initializer: if (typeof window === 'undefined') return
\* initialValue, before any use of localStorage.
InitializerReadsStore(w) == w

\* The guard of setValue's write: if (typeof window !== 'undefined').
SetValueWritesStoreAlways(w) == TRUE

SetValueWritesStore(w) == w

\* The store after the initializer: its only use of localStorage is getItem
\* (there is no setItem on this path, the default is not written back).
StoreAfterInitializerSeeds(st, k, initialValue) ==
    IF st[k].present THEN st
    ELSE SetItem(st, k, JSONStringify(initialValue))

StoreAfterInitializer(st, k, initialValue) == st

\* First render of useLocalStorage(k, initialValue) by instance i: the state
\* initializer runs.  In a browser the render leaves its effect to be run
\* after the commit (effects do not run in server rendering).
OpenHook(i, k, initialValue) ==
    /\ hook[i].status = "closed"
    /\ LET reads == InitializerReadsStore(hasWindow)
           item == IF reads THEN GetItem(store, k) ELSE Absent
           r == IF reads THEN ReadInitial(item, k, initialValue)
                ELSE [value |-> initialValue, logged |-> <<>>,
                      threw |-> FALSE]
       IN  /\ hook' = IF r.threw THEN hook
                       ELSE [hook EXCEPT ![i] =
                               [status |-> "live", key |-> k,
                                storedValue |-> r.value, seen |-> r.value,
                                effect |-> hasWindow]]
           /\ console' = r.logged
           /\ ops' = IF reads THEN <<[op |-> "getItem", key |-> k]>>
                     ELSE <<>>
           /\ lastCall' = [op |-> "open", inst |-> i, key |-> k,
                           arg |-> initialValue, item |-> item,
                           threw |-> r.threw]
           /\ store' = IF reads
                       THEN StoreAfterInitializer(store, k, initialValue)
                       ELSE store
    /\ UNCHANGED <<windowOf, hasWindow, listeners, events, everRejected>>
    /\ UNCHANGED <<dvars, tvars>>

\* The argument of setValue: a literal, or an updater function.
Literal(v) == [kind |-> "literal", v |-> v]
Updater(f) == [kind |-> "updater", f |-> f]

\* The updater of the tests, (prev: number) => prev + 1, on a counter.
ApplyUpdater(f, v) == JNum(v.n + 1)

\* Every argument setValue may be called with.
AllSetValueArgs == {Literal(v) : v \in JVals} \cup {Updater("inc")}

\* The arguments setValue is called with; the counter stops at MaxCount.
SetValueArgs(seen) ==
    {Literal(v) : v \in JVals \cup RoundTripVals}
        \cup {Updater(f) : f \in IF seen.t = "num" /\ seen.n < MaxCount
                                 THEN {"inc"} ELSE {}}

\* const valueToStore = value instanceof Function ? value(storedValue) : value
\* where storedValue is the one the closure captured at its render.
ValueToStore(arg, seen) ==
    IF arg.kind = "updater" THEN ApplyUpdater(arg.f, seen) ELSE arg.v

\* setStoredValue(valueToStore) comes before the write, so the new state
\* stands also when setItem throws (raised).
NewStoredValueAfterWrite(old, v, raised) == IF raised THEN old ELSE v

NewStoredValue(old, v, raised) == v

\* The string handed to setItem: JSON.stringify(valueToStore).
WrittenStringOfClosure(v, seen) == JSONStringify(seen)

WrittenString(v, seen) == JSONStringify(v)

\* setValue's catch block: an exception raised in the try block (setItem
\* throwing) ends in one console.log and the call returns normally.
SetValueCatchRethrows(k, raised) ==
    IF raised
    THEN [logged |-> <<ConsoleLog(QuotaExceededError)>>, threw |-> TRUE]
    ELSE [logged |-> <<>>, threw |-> FALSE]

SetValueCatch(k, raised) ==
    IF raised
    THEN [logged |-> <<ConsoleLog(QuotaExceededError)>>, threw |-> FALSE]
    ELSE [logged |-> <<>>, threw |-> FALSE]

\* The windows that hold a document of the origin.
Documents == {windowOf[i] : i \in Instances}

\* The windows the browser fires a 'storage' event at when a document of
\* window w changes an entry: every other document of the origin, not w.
NotifiedWindows(w) == Documents \ {w}

\* The windows setValue itself dispatches an event to: none, it only calls
\* setItem.
SetValueDispatchesLocally(w) == {w}

SetValueDispatches(w) == {}

\* The queues after a write of instance i that changed the entry of k to s.
Notify(evs, i, k, s) ==
    [w \in Windows |->
        IF w \in NotifiedWindows(windowOf[i])
                    \cup SetValueDispatches(windowOf[i])
        THEN Append(evs[w], StorageEvent(k, Item(s)))
        ELSE evs[w]]

\* The store after setValue's setItem(k, s) call: a call that throws
\* (quota) has stored nothing.
StoreAfterSetItemPartial(st, k, s, quota) == SetItem(st, k, s)

StoreAfterSetItem(st, k, s, quota) ==
    IF quota THEN st ELSE SetItem(st, k, s)

\* setValue(value) of instance i, with the closure of its last render:
\*   try { const valueToStore = ...;
\*         setStoredValue(valueToStore);
\*         if (typeof window !== 'undefined')
\*           window.localStorage.setItem(key, JSON.stringify(valueToStore)); }
\*   catch (error) { console.log(error); }
\* quota: the store rejects the write (setItem throws).
\* The caller holds the setValue of the instance's last render, also once
\* the component is unmounted: the call then does all it does otherwise,
\* but React ignores its setStoredValue and the state is as it was.
SetValue(i, arg, quota) ==
    /\ hook[i].status # "closed"
    /\ arg \in SetValueArgs(hook[i].seen)
    /\ LET k == hook[i].key
           writes == SetValueWritesStore(hasWindow)
           v == ValueToStore(arg, hook[i].seen)
           s == WrittenString(v, hook[i].seen)
           raised == writes /\ quota
           c == SetValueCatch(k, raised)
       IN  /\ hook' = IF hook[i].status = "live"
                       THEN [hook EXCEPT ![i].storedValue =
                                           NewStoredValue(@, v, raised)]
                       ELSE hook
           /\ ops' = IF writes
                     THEN <<[op |-> "setItem", key |-> k, s |-> s]>>
                     ELSE <<>>
           /\ store' = IF writes THEN StoreAfterSetItem(store, k, s, quota)
                       ELSE store
           /\ console' = c.logged
           /\ lastCall' = [op |-> "setValue", inst |-> i, key |-> k,
                           arg |-> arg, item |-> GetItem(store, k),
                           before |-> hook[i].storedValue,
                           rejected |-> quota, threw |-> c.threw]
           /\ everRejected' = (everRejected \/ quota)
           /\ events' = IF writes /\ ~quota /\ store[k] # Item(s)
                        THEN Notify(events, i, k, s)
                        ELSE events
           /\ \A w \in Windows : Len(events'[w]) <= MaxEvents
    /\ (quota => hasWindow)
    /\ UNCHANGED <<windowOf, hasWindow, listeners>>
    /\ UNCHANGED <<dvars, tvars>>

\* The re-render a state change causes: the new setValue closure captures
\* the current storedValue.
RenderHook(i) ==
    /\ hook[i].status = "live"
    /\ ~hook[i].effect
    /\ hook[i].seen # hook[i].storedValue
    /\ hook' = [hook EXCEPT ![i].seen = hook[i].storedValue]
    /\ lastCall' = [op |-> "render", inst |-> i]
    /\ console' = <<>>
    /\ ops' = <<>>
    /\ UNCHANGED <<windowOf, hasWindow, store, listeners, events, everRejected>>
    /\ UNCHANGED <<dvars, tvars>>

\* The effect's cleanup:
\*   return () => window.removeEventListener('storage', handleStorageChange)
RemoveEventListenerNever(ls, i) == ls

RemoveEventListener(ls, i) == {l \in ls : l.inst # i}

\* unmount(): the commit removes the component and leaves the cleanup of
\* its effect to be run after it ("unmounted"); where there is no window no
\* effect has run and there is none ("gone").
UnmountHook(i) ==
    /\ hook[i].status = "live"
    /\ ~hook[i].effect
    /\ hook' = [hook EXCEPT ![i].status =
                               IF hasWindow THEN "unmounted" ELSE "gone"]
    /\ lastCall' = [op |-> "unmount", inst |-> i]
    /\ console' = <<>>
    /\ ops' = <<>>
    /\ UNCHANGED <<windowOf, hasWindow, store, listeners, events,
                   everRejected>>
    /\ UNCHANGED <<dvars, tvars>>

\* The cleanup of the unmounted instance's effect runs and removes its
\* 'storage' listener.  React runs it after the commit, as it runs an
\* effect; until it has run, the events dispatched to the window still meet
\* the handler.
CleanupHook(i) ==
    /\ hook[i].status = "unmounted"
    /\ hook' = [hook EXCEPT ![i].status = "gone"]
    /\ listeners' = RemoveEventListener(listeners, i)
    /\ lastCall' = [op |-> "cleanup", inst |-> i]
    /\ console' = <<>>
    /\ ops' = <<>>
    /\ UNCHANGED <<windowOf, hasWindow, store, events, everRejected>>
    /\ UNCHANGED <<dvars, tvars>>

\* The state after a render with another key: useState runs its initializer
\* on the first render only, so the entry of the new key is not consulted.
ValueAfterKeyChange(old, item) == old

\* A re-render of instance i with another key k.  The state is kept (the
\* initializer runs on the first render only), setValue is rebuilt for the new
\* key (deps [key, storedValue]), and the effect, whose deps are [key], is
\* left to be run after the commit; the store is not read.
RekeyHook(i, k) ==
    /\ hook[i].status = "live"
    /\ ~hook[i].effect
    /\ hook[i].key # k
    /\ LET v == ValueAfterKeyChange(hook[i].storedValue, GetItem(store, k))
       IN  hook' = [hook EXCEPT ![i].key = k, ![i].storedValue = v,
                                ![i].seen = v, ![i].effect = hasWindow]
    /\ lastCall' = [op |-> "rekey", inst |-> i, key |-> k,
                    before |-> hook[i].key]
    /\ console' = <<>>
    /\ ops' = <<>>
    /\ UNCHANGED <<windowOf, hasWindow, store, listeners, events,
                   everRejected>>
    /\ UNCHANGED <<dvars, tvars>>

\* The effect of the last render of instance i, run by React after the
\* commit (deps [key]: after the first render and after a render with
\* another key): the cleanup of the previous effect removes its handler,
\* then a handler that compares e.key with the key of this render is added.
\*   window.addEventListener('storage', handleStorageChange);
\*   return () => window.removeEventListener('storage', handleStorageChange);
\* React runs the pending effect before it renders the component again or
\* unmounts it; until it has run, the 'storage' events dispatched to the
\* window meet the handlers subscribed before.
UseEffect(i) ==
    /\ hook[i].status = "live"
    /\ hook[i].effect
    /\ hook' = [hook EXCEPT ![i].effect = FALSE]
    /\ listeners' = RemoveEventListener(listeners, i)
                        \cup {[inst |-> i, key |-> hook[i].key]}
    /\ lastCall' = [op |-> "effect", inst |-> i, key |-> hook[i].key]
    /\ console' = <<>>
    /\ ops' = <<>>
    /\ UNCHANGED <<windowOf, hasWindow, store, events, everRejected>>
    /\ UNCHANGED <<dvars, tvars>>

\* The guard of handleStorageChange, with the key its effect captured:
\*   if (e.key === key && e.newValue !== null)
HandlesEventOfAnyKey(e, k) == e.newValue.present

HandlesEvent(e, k) == e.key = k /\ e.newValue.present

\* try { setStoredValue(JSON.parse(e.newValue)); } catch (error) { ... }
\* r is the outcome of JSON.parse: setStoredValue runs only if it returns.
AdoptParsed(r, old) == IF r.ok THEN r.v ELSE old

\* The catch block of handleStorageChange: console.log(error).
HandlerCatch(k, r) == <<ConsoleLog(SyntaxError)>>

\* The string the handler parses: the event's newValue, not the entry the
\* store holds when the event is handled.
NewValueOf(e) == e.newValue.s

\* handleStorageChange(e) of a listener l: the value of its instance after
\* the handler, the warnings it emits, and whether an exception leaves it
\* (JSON.parse is inside the try block).
\* (Without the test of e.newValue, JSON.parse(null) would return null.)
HandleStorageChangeOfRemoval(l, e, old) ==
    IF e.key = l.key /\ ~e.newValue.present
    THEN [value |-> JNull, logged |-> <<>>, threw |-> FALSE]
    ELSE IF HandlesEvent(e, l.key)
    THEN LET r == JSONParse(NewValueOf(e))
         IN  [value |-> AdoptParsed(r, old),
              logged |-> IF r.ok THEN <<>> ELSE HandlerCatch(l.key, r),
              threw |-> FALSE]
    ELSE [value |-> old, logged |-> <<>>, threw |-> FALSE]

HandleStorageChange(l, e, old) ==
    IF HandlesEvent(e, l.key)
    THEN LET r == JSONParse(NewValueOf(e))
         IN  [value |-> AdoptParsed(r, old),
              logged |-> IF r.ok THEN <<>> ELSE HandlerCatch(l.key, r),
              threw |-> FALSE]
    ELSE [value |-> old, logged |-> <<>>, threw |-> FALSE]

\* The store after handleStorageChange(e): the handler only sets the state;
\* it makes no localStorage call (setItem is in setValue alone).
StoreAfterHandlerWritesBack(st, e) ==
    IF e.newValue.present THEN SetItem(st, e.key, e.newValue.s) ELSE st

StoreAfterHandler(st, e) == st

\* Another browsing context of the same origin writes (or removes) the
\* entry of k; the browser queues a 'storage' event for every window.
ExternalWrite(k, newValue) ==
    /\ hasWindow
    /\ \A w \in Documents : Len(events[w]) < MaxEvents
    /\ store' = [store EXCEPT ![k] = newValue]
    /\ events' = [w \in Windows |->
                    IF w \in Documents
                    THEN Append(events[w], StorageEvent(k, newValue))
                    ELSE events[w]]
    /\ lastCall' = [op |-> "external", key |-> k, item |-> newValue]
    /\ console' = <<>>
    /\ ops' = <<>>
    /\ UNCHANGED <<windowOf, hasWindow, hook, listeners, everRejected>>
    /\ UNCHANGED <<dvars, tvars>>

\* The browser dispatches the oldest 'storage' event queued for window w:
\* every listener registered on that window runs its handleStorageChange.
\* The setStoredValue of an unmounted instance's handler is ignored by React:
\* its state is as it was.
DispatchStorageEvent(w) ==
    /\ events[w] # <<>>
    /\ LET e == Head(events[w])
           Of(i) == CHOOSE l \in listeners : l.inst = i
           Listening(i) == /\ windowOf[i] = w
                           /\ \E l \in listeners : l.inst = i
           Logged(i) == IF Listening(i)
                        THEN HandleStorageChange(Of(i), e,
                                                 hook[i].storedValue).logged
                        ELSE <<>>
       IN  /\ hook' = [i \in Instances |->
                         IF Listening(i) /\ hook[i].status = "live"
                         THEN [hook[i] EXCEPT !.storedValue =
                                 HandleStorageChange(Of(i), e, @).value]
                         ELSE hook[i]]
           /\ console' = Logged(1) \o Logged(2)
           /\ lastCall' = [op |-> "event", key |-> e.key,
                           item |-> e.newValue, before |-> hook,
                           heard |-> {i \in Instances : Listening(i)},
                           win |-> w,
                           threw |-> \E i \in Instances :
                               /\ Listening(i)
                               /\ HandleStorageChange(Of(i), e,
                                      hook[i].storedValue).threw]
    /\ store' = StoreAfterHandler(store, Head(events[w]))
    /\ events' = [events EXCEPT ![w] = Tail(@)]
    /\ ops' = <<>>
    /\ UNCHANGED <<windowOf, hasWindow, listeners, everRejected>>
    /\ UNCHANGED <<dvars, tvars>>

\* Before any hook is rendered: a browser with any store content, or a server
\* (no window, hence no store content).
InitStorage ==
    /\ hasWindow \in BOOLEAN
    /\ store \in [Keys -> StoredEntries]
    /\ (~hasWindow => store = [k \in Keys |-> Absent])
    /\ hook = [i \in Instances |-> Closed]
    /\ listeners = {}
    /\ windowOf = [i \in Instances |-> "A"]
    /\ events = NoEvents
    /\ lastCall = NoCall
    /\ console = <<>>
    /\ ops = <<>>
    /\ everRejected = FALSE
    /\ DebounceIdle
    /\ ToggleIdle

\* One instance of the hook on one store.
NextStorage ==
    \/ \E k \in Keys, v \in JVals : OpenHook(1, k, v)
    \/ \E arg \in AllSetValueArgs, quota \in BOOLEAN : SetValue(1, arg, quota)
    \/ RenderHook(1)
    \/ UseEffect(1)
    \/ UnmountHook(1)
    \/ CleanupHook(1)

(***************************************************************************)
(* PART III -- useToggle                                                   *)
(***************************************************************************)

\* useToggle(initialValue = false): the default parameter.
InitialValue(arg) == IF arg.given THEN arg.b ELSE FALSE

\* toggle = useCallback(() => setValue((prev) => !prev), []): the update is
\* the function, whatever value the render (v) showed.
ToggleUpdateOfClosure(v) == SetTo(~v)

ToggleUpdate(v) == Negate

\* setTrue = useCallback(() => setValue(true), [])
SetTrueUpdateNegates == Negate

SetTrueUpdate == SetTo(TRUE)

\* setFalse = useCallback(() => setValue(false), [])
SetFalseUpdate == SetTo(FALSE)

\* setValueCallback = useCallback((newValue) => setValue(newValue), [])
SetValueUpdate(newValue) == SetTo(newValue)

\* The state after the queued updates of a batch, applied in call order to
\* the state v (React's processing of the update queue at the re-render).
RECURSIVE ProcessUpdates(_, _)
ProcessUpdates(q, v) ==
    IF q = <<>> THEN v
    ELSE ProcessUpdates(Tail(q),
                        IF Head(q).upd.fn = "not" THEN ~v ELSE Head(q).upd.b)

\* renderHook(() => useToggle(arg)): useState(initialValue).
InitToggle ==
    /\ tArg \in ToggleArgs
    /\ tValue = InitialValue(tArg)
    /\ tQueue = <<>>
    /\ tToggles = 0
    /\ tOnlyToggle = TRUE
    /\ tLast = [op |-> "mount"]
    /\ DebounceIdle
    /\ StorageIdle

\* One of the four actions is called: its state update is queued.
Call(name, arg, upd) ==
    /\ Len(tQueue) < MaxBatch
    /\ tQueue' = Append(tQueue, [call |-> name, arg |-> arg, upd |-> upd])
    /\ tLast' = [op |-> name]
    /\ UNCHANGED <<tArg, tValue>>
    /\ UNCHANGED <<dvars, svars>>

\* toggle()
Toggle ==
    /\ tToggles < MaxToggles
    /\ Call("toggle", FALSE, ToggleUpdate(tValue))
    /\ tToggles' = tToggles + 1
    /\ UNCHANGED tOnlyToggle

\* setTrue()
SetTrue ==
    /\ Call("setTrue", FALSE, SetTrueUpdate)
    /\ tOnlyToggle' = FALSE
    /\ UNCHANGED tToggles

\* setFalse()
SetFalse ==
    /\ Call("setFalse", FALSE, SetFalseUpdate)
    /\ tOnlyToggle' = FALSE
    /\ UNCHANGED tToggles

\* setValue(newValue)
SetToggleValue(newValue) ==
    /\ Call("setValue", newValue, SetValueUpdate(newValue))
    /\ tOnlyToggle' = FALSE
    /\ UNCHANGED tToggles

\* The batch ends: React re-renders with the queued updates applied.
RenderToggle ==
    /\ tQueue # <<>>
    /\ tValue' = ProcessUpdates(tQueue, tValue)
    /\ tQueue' = <<>>
    /\ tLast' = [op |-> "render", calls |-> tQueue, before |-> tValue]
    /\ UNCHANGED <<tArg, tToggles, tOnlyToggle>>
    /\ UNCHANGED <<dvars, svars>>

NextToggle ==
    \/ Toggle
    \/ SetTrue
    \/ SetFalse
    \/ \E b \in BOOLEAN : SetToggleValue(b)
    \/ RenderToggle

SpecToggle == InitToggle /\ [][NextToggle]_vars

SpecDebounce == InitDebounce /\ [][NextDebounce]_vars

\* React runs a pending effect and a pending cleanup, the host runs a due
\* timer's callback, and its clock keeps advancing.
SpecDebounceLive ==
    /\ InitDebounce
    /\ [][NextDebounceLive]_vars
    /\ WF_vars(RunEffect)
    /\ WF_vars(RunCleanup)
    /\ WF_vars(Fire)
    /\ WF_vars(Tick)

SpecStorage == InitStorage /\ [][NextStorage]_vars

\* A browser whose store other browsing contexts write to.
InitEvents ==
    /\ hasWindow = TRUE
    /\ store = [k \in Keys |-> Absent]
    /\ hook = [i \in Instances |-> Closed]
    /\ listeners = {}
    /\ windowOf = [i \in Instances |-> "A"]
    /\ events = NoEvents
    /\ lastCall = NoCall
    /\ console = <<>>
    /\ ops = <<>>
    /\ everRejected = FALSE
    /\ DebounceIdle
    /\ ToggleIdle

\* One hook instance in that browser, with the 'storage' events of the
\* other contexts' writes.
NextEvents ==
    \/ \E k \in Keys, v \in EventInitials : OpenHook(1, k, v)
    \/ \E arg \in EventSetValueArgs, quota \in BOOLEAN :
            SetValue(1, arg, quota)
    \/ RenderHook(1)
    \/ \E k \in Keys : RekeyHook(1, k)
    \/ UseEffect(1)
    \/ UnmountHook(1)
    \/ CleanupHook(1)
    \/ \E k \in Keys, nv \in EventPayloads : ExternalWrite(k, nv)
    \/ DispatchStorageEvent("A")

SpecEvents == InitEvents /\ [][NextEvents]_vars

\* A browser with an empty store.
InitRoundTrip ==
    /\ hasWindow = TRUE
    /\ store = [k \in Keys |-> Absent]
    /\ hook = [i \in Instances |-> Closed]
    /\ listeners = {}
    /\ windowOf = [i \in Instances |-> "A"]
    /\ events = NoEvents
    /\ lastCall = NoCall
    /\ console = <<>>
    /\ ops = <<>>
    /\ everRejected = FALSE
    /\ DebounceIdle
    /\ ToggleIdle

\* Instance 1 stores values of every JSON type; instance 2 is opened at any
\* moment, on either key, with either initial value.
NextRoundTrip ==
    \/ \E i \in Instances, k \in Keys, v \in EventInitials : OpenHook(i, k, v)
    \/ \E i \in Instances : UseEffect(i)
    \/ \E arg \in RoundTripSetValueArgs : SetValue(1, arg, FALSE)

SpecRoundTrip == InitRoundTrip /\ [][NextRoundTrip]_vars

\* Two instances, in one window or in two windows of the same origin, over
\* an empty store.
InitContexts ==
    /\ hasWindow = TRUE
    /\ store = [k \in Keys |-> Absent]
    /\ hook = [i \in Instances |-> Closed]
    /\ listeners = {}
    /\ windowOf \in [Instances -> Windows]
    /\ windowOf[1] = "A"
    /\ events = NoEvents
    /\ lastCall = NoCall
    /\ console = <<>>
    /\ ops = <<>>
    /\ everRejected = FALSE
    /\ DebounceIdle
    /\ ToggleIdle

\* Both instances are opened, set values and are torn down in any order;
\* the browser dispatches the events their writes raise.
NextContexts ==
    \/ \E i \in Instances, k \in Keys, v \in ContextInitials :
            OpenHook(i, k, v)
    \/ \E i \in Instances, arg \in ContextSetValueArgs, quota \in BOOLEAN :
            SetValue(i, arg, quota)
    \/ \E i \in Instances : RenderHook(i)
    \/ \E i \in Instances : UseEffect(i)
    \/ \E i \in Instances : UnmountHook(i)
    \/ \E i \in Instances : CleanupHook(i)
    \/ \E w \in Windows : DispatchStorageEvent(w)

SpecContexts == InitContexts /\ [][NextContexts]_vars

\* A browser or a server, with an empty store.
InitLifetime ==
    /\ hasWindow \in BOOLEAN
    /\ store = [k \in Keys |-> Absent]
    /\ hook = [i \in Instances |-> Closed]
    /\ listeners = {}
    /\ windowOf = [i \in Instances |-> "A"]
    /\ events = NoEvents
    /\ lastCall = NoCall
    /\ console = <<>>
    /\ ops = <<>>
    /\ everRejected = FALSE
    /\ DebounceIdle
    /\ ToggleIdle

\* The life of two instances: first render, re-renders with another key,
\* setValue calls, events of other contexts' writes, unmount.
NextLifetime ==
    \/ \E i \in Instances, k \in Keys, v \in ContextInitials :
            OpenHook(i, k, v)
    \/ \E i \in Instances, k \in Keys : RekeyHook(i, k)
    \/ \E i \in Instances : UseEffect(i)
    \/ \E i \in Instances, arg \in LifetimeSetValueArgs :
            SetValue(i, arg, FALSE)
    \/ \E k \in Keys, nv \in EventPayloads : ExternalWrite(k, nv)
    \/ DispatchStorageEvent("A")
    \/ \E i \in Instances : UnmountHook(i)
    \/ \E i \in Instances : CleanupHook(i)

SpecLifetime == InitLifetime /\ [][NextLifetime]_vars

(***************************************************************************)
(* Claims about useDebounce, checked under SpecDebounce.                   *)
(***************************************************************************)

\* The timer the current effect created is still pending.
Pending == \E t \in timers : t.id = handler

\* C1: whenever the output changes, it changes to an input value that has
\* been the current input, unchanged, for at least the delay: the value the
\* current effect ran with, at least its delay after that effect, and still
\* the input, or replaced only at this very instant by a render whose effect
\* has yet to run.  So an intermediate value that was replaced before the
\* delay elapsed is never emitted.
C1_OutputIsStableInput ==
    [][debouncedValue' # debouncedValue =>
          /\ debouncedValue' = deps.value
          /\ now - effectAt >= deps.delay
          /\ value' = value
          /\ ~effectPending => /\ value = deps.value
                               /\ now - valueAt >= delay
          /\ value # deps.value => valueAt = now]_dvars

\* C1 witness: after rapid changes (the previous value was replaced before its
\* delay elapsed, same delay) the timer fired and emitted the final value.
C1_Witness ==
    /\ lastStep = "fire"
    /\ ~effectPending
    /\ prev # NoEffect
    /\ prev.d = delay
    /\ delay > 0
    /\ prev.v # value
    /\ prev.t < effectAt
    /\ effectAt < prev.t + prev.d
    /\ debouncedValue = value
    /\ outAtEffect # value
    /\ outAtEffect # prev.v

\* C2, general part: after the input changed at time t = effectAt (the effect
\* of the change ran then) and did not change again, the output keeps the
\* value it had at t at every instant before t + d, and equals the new input
\* once t + d has been reached and the timer has run; time does not pass
\* t + d with the old output.
C2_General ==
    mounted =>
        /\ now < effectAt + deps.delay => debouncedValue = outAtEffect
        /\ now > effectAt + deps.delay => debouncedValue = deps.value
        /\ (now >= effectAt + deps.delay /\ ~Pending)
             => debouncedValue = deps.value

\* C2, the example: d = 500 ms, input "a", changed to "b" at t = 0 and to "c"
\* at t = 300 ms: the output is "a" until t = 800 ms, then "c", never "b".
C2_Example ==
    /\ (mounted /\ effectAt = 0 /\ deps = [value |-> "b", delay |-> 5]
            /\ outAtEffect = "a" /\ now < 5)
         => debouncedValue = "a"
    /\ (mounted /\ prev = [t |-> 0, v |-> "b", d |-> 5, out |-> "a"]
            /\ effectAt = 3 /\ deps = [value |-> "c", delay |-> 5])
         => /\ now < 8 => debouncedValue = "a"
            /\ now > 8 => debouncedValue = "c"
            /\ now = 8 => debouncedValue = (IF Pending THEN "a" ELSE "c")
            /\ debouncedValue # "b"

\* C2: the change takes effect exactly one delay after the last change.
C2_ChangeAfterDelay == C2_General /\ C2_Example

\* C2 witness: the example's run, at t = 800 ms, when the output became "c".
C2_Witness ==
    /\ mounted
    /\ ~effectPending
    /\ prev = [t |-> 0, v |-> "b", d |-> 5, out |-> "a"]
    /\ effectAt = 3 /\ value = "c" /\ delay = 5
    /\ now = 8
    /\ lastStep = "fire"
    /\ debouncedValue = "c"

\* C3: the output equals the initial input on creation, and it changes only
\* when the timer of an effect started by a later input change (not the
\* mount's) runs, after that timer's full delay.
C3_InitialUntilFirstFullDelay ==
    /\ debouncedValue = value
    /\ [][debouncedValue' # debouncedValue =>
            /\ prev # NoEffect
            /\ now >= effectAt + deps.delay
            /\ \E t \in timers :
                /\ t.id = handler
                /\ t.due = effectAt + deps.delay
                /\ t \notin timers']_dvars

\* C3 witness: the first input change after creation is pending, its delay
\* has not elapsed, the mount's timer is gone, and the output is still the
\* initial value.
C3_Witness ==
    /\ mounted
    /\ ~effectPending
    /\ prev # NoEffect
    /\ prev.t = 0
    /\ prev.out = prev.v
    /\ debouncedValue = prev.v
    /\ value # prev.v
    /\ now > effectAt
    /\ now < effectAt + delay
    /\ Pending

\* C4 as stated: a timer pending at unmount is cancelled (its callback never
\* runs), and after unmount the output never changes again.  A timer already
\* due when the component is unmounted can run before the effect's cleanup
\* does, so the first part fails.
C4_PendingTimerCancelled ==
    /\ [][~mounted => fires' = fires]_dvars
    /\ [][~mounted => debouncedValue' = debouncedValue]_dvars

\* C4: after unmount the output never changes again however much time
\* passes; the effect's cleanup, which runs after the unmount, cancels the
\* timer still pending, so that from then on no timer is pending and no
\* callback runs; the only callback that can run after the unmount is that of
\* a timer already due, before the cleanup has run, and its update is
\* discarded.
C4_NoUpdateAfterTeardown ==
    /\ [][~mounted => debouncedValue' = debouncedValue]_dvars
    /\ [](~mounted /\ ~cleanupPending => timers = {})
    /\ [][(~mounted /\ fires' # fires) =>
             /\ cleanupPending
             /\ \E t \in timers : t.due <= now /\ timers' = timers \ {t}]_dvars

\* C4 witness: unmounted while the timer was pending, the cleanup cancelled
\* it (it never fired), time passed beyond its due time, and the output
\* never took the new value.
C4_Witness ==
    /\ ~mounted
    /\ ~cleanupPending
    /\ fires = 0
    /\ prev # NoEffect
    /\ now > effectAt + delay
    /\ debouncedValue # value
    /\ timers = {}

\* C5: a render with another delay has its effect run, and that effect
\* cancels the pending timer and leaves exactly one timer, running for the
\* new delay from the moment of the change; the timer of a stable period
\* fires exactly once (never twice, and it has fired once no timer is
\* pending).
C5_DelayChangeReplacesTimer ==
    /\ [][(mounted /\ delay' # delay) => effectPending']_dvars
    /\ [][(mounted /\ effectPending /\ ~effectPending') =>
            timers' = {[id |-> handler', due |-> now + delay,
                        val |-> value]}]_dvars
    /\ [](fires <= 1)
    /\ [](mounted => (fires = 1 <=> timers = {}))

\* C5 witness: the delay alone changed while the timer was pending, and the
\* replacing timer has fired, once, one new delay after the change.
C5_Witness ==
    /\ lastStep = "fire"
    /\ ~effectPending
    /\ fires = 1
    /\ prev # NoEffect
    /\ prev.d # delay
    /\ prev.v = value
    /\ prev.t < effectAt
    /\ effectAt < prev.t + prev.d
    /\ now = effectAt + delay
    /\ delay > 0

\* C6: at most one timer is pending for the emitter, in every reachable state.
C6_AtMostOneTimer == Cardinality(timers) <= 1

\* C6 witness: the effect of a change ran while a timer was pending; one
\* timer is pending afterwards.
C6_Witness ==
    /\ lastStep = "effect"
    /\ prev # NoEffect
    /\ now < prev.t + prev.d
    /\ Cardinality(timers) = 1

\* C7: with delay 0 an input change does not change the output, neither in
\* the step of the render nor in the step of its effect: the effect schedules
\* a timer due at once, and the output is updated by a separate timer-firing
\* step.
C7_ZeroDelayIsDeferred ==
    [][/\ (value' # value \/ delay' # delay)
            => debouncedValue' = debouncedValue
       /\ (effectPending /\ ~effectPending' /\ delay = 0) =>
            /\ debouncedValue' = debouncedValue
            /\ [id |-> handler', due |-> now, val |-> value] \in timers'
       /\ debouncedValue' # debouncedValue => lastStep' = "fire"]_dvars

\* C7 witness: delay 0, the value changed, and the timer fired in a later step
\* at the same instant, updating the output.
C7_Witness ==
    /\ delay = 0
    /\ ~effectPending
    /\ lastStep = "fire"
    /\ now = effectAt
    /\ outAtEffect # value
    /\ debouncedValue = value

(***************************************************************************)
(* Claims about useLocalStorage, checked under SpecStorage.                *)
(***************************************************************************)

\* The last step was the first render of a hook instance.
Opened == lastCall.op = "open"

\* C8: open(key, initial) yields initial when the store holds no entry for
\* key, and yields v when the store holds JSON.stringify(v), for every v
\* (the falsy values included) and whatever initial is.
C8_OpenYieldsStoredOrInitial ==
    Opened =>
        LET item == store[lastCall.key]
            got == hook[lastCall.inst].storedValue
        IN  /\ ~item.present => got = lastCall.arg
            /\ \A v \in JVals : item = Item(JSONStringify(v)) => got = v

\* C8 witness: the store holds the serialization of the falsy value 0, the
\* initial value is a non-empty array, and open yielded 0.
C8_Witness ==
    /\ Opened
    /\ hasWindow
    /\ store[lastCall.key] = Item(<<"0">>)
    /\ lastCall.arg = JArr(<<JNum(1), JStr(<<"a">>)>>)
    /\ hook[lastCall.inst].storedValue = JNum(0)

\* The console call c references the key k: k is among its arguments.
References(c, k) == \E n \in 1..Len(c.args) : c.args[n] = k

\* C9: for every stored string under key that fails to deserialize (the
\* empty string included), open(key, initial) yields initial, emits exactly
\* one warning that references key, and leaves the stored entry as it was.
C9_CorruptEntryWarnsOnce ==
    (Opened /\ lastCall.item.present /\ ~JSONParse(lastCall.item.s).ok) =>
        /\ hook[lastCall.inst].storedValue = lastCall.arg
        /\ Len(console) = 1
        /\ References(console[1], lastCall.key)
        /\ store[lastCall.key] = lastCall.item

\* C10 as stated: without a window, open yields initial, neither open nor
\* any later setValue calls the store, and every setValue, whenever it is
\* called, sets the in-memory value.
C10_NoStoreWithoutWindow ==
    ~hasWindow =>
        /\ ops = <<>>
        /\ store = [k \in Keys |-> Absent]
        /\ Opened => hook[lastCall.inst].storedValue = lastCall.arg
        /\ lastCall.op = "setValue" =>
             hook[lastCall.inst].storedValue =
                IF lastCall.arg.kind = "literal" THEN lastCall.arg.v
                ELSE JNum(hook[lastCall.inst].seen.n + 1)

\* C10, amended: without a window, open yields initial, neither open nor any
\* later setValue (one called after the unmount included) calls the store,
\* and a setValue called while the component is mounted sets the in-memory
\* value; after the unmount React ignores the setStoredValue of the call.
C10_NoStoreWithoutWindowWhileMounted ==
    ~hasWindow =>
        /\ ops = <<>>
        /\ store = [k \in Keys |-> Absent]
        /\ Opened => hook[lastCall.inst].storedValue = lastCall.arg
        /\ (lastCall.op = "setValue" /\ hook[lastCall.inst].status = "live")
              => hook[lastCall.inst].storedValue =
                   IF lastCall.arg.kind = "literal" THEN lastCall.arg.v
                   ELSE JNum(hook[lastCall.inst].seen.n + 1)
        /\ (lastCall.op = "setValue" /\ hook[lastCall.inst].status # "live")
              => hook[lastCall.inst].storedValue = lastCall.before

\* C10 witness: without a window, a setValue of the mounted component
\* changed the in-memory value to its literal argument.
C10_Witness ==
    /\ ~hasWindow
    /\ lastCall.op = "setValue"
    /\ hook[lastCall.inst].status = "live"
    /\ lastCall.arg.kind = "literal"
    /\ hook[lastCall.inst].storedValue = lastCall.arg.v
    /\ hook[lastCall.inst].storedValue # hook[lastCall.inst].seen

\* The last step was a call of setValue.
SetCalled == lastCall.op = "setValue"

\* The localStorage writes of the last step.
SetItemOps == {n \in 1..Len(ops) : ops[n].op = "setItem"}

\* C11 as stated: after every setValue with a literal v whose write the
\* store accepts, the in-memory value is v and the entry under the key is
\* the serialization of v; and every string ever written to the store is
\* written by setValue, under the hook's key, and is the serialization of
\* the value that call set in memory.
C11_LiteralIsSetAndStored ==
    /\ (SetCalled /\ lastCall.arg.kind = "literal" /\ hasWindow
            /\ ~lastCall.rejected)
          => /\ hook[lastCall.inst].storedValue = lastCall.arg.v
             /\ store[lastCall.key] = Item(JSONStringify(lastCall.arg.v))
    /\ \A n \in SetItemOps :
          /\ SetCalled
          /\ ops[n].key = lastCall.key
          /\ ops[n].s = JSONStringify(hook[lastCall.inst].storedValue)

\* C11, amended: after setValue with a literal v whose write the store
\* accepts, the entry under the key is the serialization of v and, if the
\* component is mounted, the in-memory value is v; every string ever written
\* to the store is written by setValue, under the hook's key, and is the
\* serialization of the value the call resolved its argument to, which is
\* the value it set in memory if the component is mounted.
C11_WrittenIsSerializedValue ==
    /\ (SetCalled /\ lastCall.arg.kind = "literal" /\ hasWindow
            /\ ~lastCall.rejected)
          => /\ hook[lastCall.inst].status = "live"
                   => hook[lastCall.inst].storedValue = lastCall.arg.v
             /\ store[lastCall.key] = Item(JSONStringify(lastCall.arg.v))
    /\ \A n \in SetItemOps :
          /\ SetCalled
          /\ ops[n].key = lastCall.key
          /\ lastCall.arg.kind = "literal"
                => ops[n].s = JSONStringify(lastCall.arg.v)
          /\ lastCall.arg.kind = "updater"
                => ops[n].s = JSONStringify(
                       ApplyUpdater(lastCall.arg.f, hook[lastCall.inst].seen))
          /\ hook[lastCall.inst].status = "live"
                => ops[n].s = JSONStringify(hook[lastCall.inst].storedValue)

C11_Witness ==
    /\ SetCalled /\ hasWindow /\ ~lastCall.rejected
    /\ hook[lastCall.inst].status = "live"
    /\ hook[lastCall.inst].storedValue = lastCall.arg.v
    /\ lastCall.arg = Literal(JArr(<<JNum(1), JStr(<<"a">>)>>))
    /\ lastCall.before # lastCall.arg.v
    /\ lastCall.item # store[lastCall.key]
    /\ SetItemOps # {}

\* C12: setValue of the mounted component with an updater f sets the
\* in-memory value (and, when the write is accepted, the stored entry) to f
\* applied to the in-memory value current at the time of the call, also when
\* calls follow one another before a re-render.
C12_UpdaterAppliesToCurrentValue ==
    (SetCalled /\ lastCall.arg.kind = "updater" /\ lastCall.before.t = "num"
        /\ hook[lastCall.inst].status = "live")
      => /\ hook[lastCall.inst].storedValue
               = ApplyUpdater(lastCall.arg.f, lastCall.before)
         /\ (hasWindow /\ ~lastCall.rejected)
               => store[lastCall.key]
                    = Item(JSONStringify(ApplyUpdater(lastCall.arg.f,
                                                      lastCall.before)))

\* C13 as stated: when the store rejects the write, every setValue still
\* leaves the in-memory value equal to the new value: the literal it was
\* given, and in every case the value whose serialization it tried to write.
C13_RejectedWriteKeepsNewValue ==
    (SetCalled /\ lastCall.rejected)
      => /\ lastCall.arg.kind = "literal"
               => hook[lastCall.inst].storedValue = lastCall.arg.v
         /\ \A n \in SetItemOps :
               JSONStringify(hook[lastCall.inst].storedValue) = ops[n].s

\* C13, amended: when the store rejects the write, a setValue of the
\* mounted component still leaves the in-memory value equal to the new value
\* (the literal it was given, and in every case the value whose
\* serialization it tried to write); one called after the unmount leaves the
\* in-memory value as it was.
C13_RejectedWriteKeepsNewValueWhileMounted ==
    (SetCalled /\ lastCall.rejected)
      => IF hook[lastCall.inst].status = "live"
         THEN /\ lastCall.arg.kind = "literal"
                    => hook[lastCall.inst].storedValue = lastCall.arg.v
              /\ SetItemOps # {}
              /\ \A n \in SetItemOps :
                    JSONStringify(hook[lastCall.inst].storedValue) = ops[n].s
         ELSE hook[lastCall.inst].storedValue = lastCall.before

C13_Witness ==
    /\ SetCalled /\ lastCall.rejected
    /\ hook[lastCall.inst].status = "live"
    /\ lastCall.arg.kind = "literal"
    /\ lastCall.before # lastCall.arg.v
    /\ hook[lastCall.inst].storedValue = lastCall.arg.v
    /\ store[lastCall.key] = lastCall.item

\* C14: no call of open or setValue ends in an error that reaches the
\* caller, whatever the store holds and whether or not the deserialization
\* of the entry or the write fails; the instance is live after open.
C14_NoErrorReachesCaller ==
    /\ (Opened \/ SetCalled) => ~lastCall.threw
    /\ Opened => hook[lastCall.inst].status = "live"

\* A rejected write on a key whose entry is corrupt: the open before it met
\* the failing deserialization, this call the failing write.
C14_Witness ==
    /\ SetCalled /\ lastCall.rejected /\ ~lastCall.threw
    /\ lastCall.item.present
    /\ Len(lastCall.item.s) > 0
    /\ ~JSONParse(lastCall.item.s).ok

\* C15: a rejected write emits exactly one warning, naming the key, in the
\* failing call (an accepted one emits none), the write is not retried, and
\* the instance keeps working: a later setValue of the mounted component
\* whose write is accepted sets memory and store as usual.
C15_RejectedWriteWarnsOnce ==
    /\ SetCalled
          => /\ Len(console) = IF lastCall.rejected THEN 1 ELSE 0
             /\ \A n \in 1..Len(console) :
                    References(console[n], lastCall.key)
             /\ Cardinality(SetItemOps) = IF hasWindow THEN 1 ELSE 0
    /\ (everRejected /\ SetCalled /\ ~lastCall.rejected
            /\ lastCall.arg.kind = "literal"
            /\ hook[lastCall.inst].status = "live")
          => /\ hook[lastCall.inst].storedValue = lastCall.arg.v
             /\ store[lastCall.key] = Item(JSONStringify(lastCall.arg.v))

\* The last step was the dispatch of a 'storage' event.
Notified == lastCall.op = "event"

\* The event of the last step reached the handler of instance 1, subscribed
\* under the key k.
NotifiedLive(k) ==
    /\ Notified
    /\ lastCall.before[1].status = "live"
    /\ 1 \in lastCall.heard
    /\ [inst |-> 1, key |-> k] \in listeners

\* C16: while the hook is in use (mounted), a notification its handler
\* receives whose key is the hook's key (the key of its last render) and
\* whose payload is the serialization of a value v sets the in-memory value
\* to v (also after a rejected write).
C16_NotificationSetsValue ==
    \A v \in JVals :
        (/\ Notified
         /\ lastCall.before[1].status = "live"
         /\ 1 \in lastCall.heard
         /\ lastCall.key = lastCall.before[1].key
         /\ lastCall.item = Item(JSONStringify(v)))
          => hook[1].storedValue = v

\* C17: a notification whose key differs from the hook's key (the key of its
\* last render) leaves the in-memory value as it was, whatever the payload.
C17_OtherKeyIsIgnored ==
    (/\ Notified
     /\ lastCall.before[1].status = "live"
     /\ 1 \in lastCall.heard
     /\ lastCall.key # lastCall.before[1].key)
      => hook[1] = lastCall.before[1]

\* C18: a notification for the hook's key whose payload does not
\* deserialize is ignored: the in-memory value stays, no error leaves the
\* handler and no warning is emitted.
C18_CorruptPayloadIsIgnored ==
    \A k \in Keys :
        (NotifiedLive(k) /\ lastCall.key = k /\ lastCall.item.present
            /\ ~JSONParse(lastCall.item.s).ok)
          => /\ hook[1] = lastCall.before[1]
             /\ ~lastCall.threw
             /\ console = <<>>

\* C19: teardown unsubscribes the handler (the effect's cleanup, run after
\* the unmount, removes it, and from then on no notification reaches it),
\* and from the unmount on no notification, of any key and payload, changes
\* the in-memory value.
C19_NoNotificationAfterTeardown ==
    \A i \in Instances :
        /\ hook[i].status = "gone"
              => /\ \A l \in listeners : l.inst # i
                 /\ Notified => i \notin lastCall.heard
        /\ (hook[i].status \in {"unmounted", "gone"} /\ Notified)
              => hook[i] = lastCall.before[i]

\* C19 witness: a notification for the key of the unmounted instance, with a
\* payload that deserializes to another value, reached its handler before
\* the cleanup had removed it, and the value is as it was.
C19_Witness ==
    /\ Notified
    /\ lastCall.before[1].status = "unmounted"
    /\ 1 \in lastCall.heard
    /\ lastCall.key = hook[1].key
    /\ lastCall.item = Item(JSONStringify(JArr(<<JNum(1), JStr(<<"a">>)>>)))
    /\ hook[1].storedValue = JNum(0)

\* C20: a value written by setValue is read back unchanged: when instance 2
\* is opened, whatever its initial value, on the key under which instance 1
\* has stored its value by a setValue whose write was accepted, it yields
\* that value and emits no warning.
C20_StoredValueIsReadBack ==
    (Opened /\ lastCall.inst = 2 /\ hook[1].status = "live"
        /\ hook[1].key = lastCall.key /\ store[lastCall.key].present)
      => /\ hook[2].storedValue = hook[1].storedValue
         /\ console = <<>>

C20_Witness ==
    /\ Opened /\ lastCall.inst = 2
    /\ hook[1].status = "live" /\ hook[1].key = lastCall.key
    /\ lastCall.arg = JNull
    /\ store[lastCall.key].present
    /\ hook[1].storedValue.t = "obj"
    /\ Len(hook[1].storedValue.m) = 3
    /\ hook[2].storedValue = hook[1].storedValue

\* C21: last write wins at the receiver.  While instance 1 is live, its
\* in-memory value after a step is the one set by that step: a setValue sets
\* the value it was given (the value whose serialization it writes), a
\* notification for the hook's key with the serialization of v, delivered
\* to its handler, sets v, whatever the value and the stored entry were
\* before (so also when a local setValue came after the notifying write),
\* and nothing else changes it.
C21_LastEventWins ==
    [][(hook[1].status = "live" /\ hook'[1].status = "live")
         => IF lastCall'.op = "setValue"
            THEN /\ lastCall'.arg.kind = "literal"
                      => hook'[1].storedValue = lastCall'.arg.v
                 /\ JSONStringify(hook'[1].storedValue) = ops'[1].s
            ELSE IF /\ lastCall'.op = "event"
                    /\ 1 \in lastCall'.heard
                    /\ lastCall'.key = hook[1].key
                    /\ lastCall'.item.present
                    /\ JSONParse(lastCall'.item.s).ok
            THEN \A v \in JVals :
                    lastCall'.item = Item(JSONStringify(v))
                      => hook'[1].storedValue = v
            ELSE hook'[1].storedValue = hook[1].storedValue]_vars

\* The other instance.
Other(i) == 3 - i

\* C22 as stated: ordering of one setValue.  Within every setValue step the
\* caller's in-memory value is set, also when the write is then rejected,
\* and the write is made; no other instance changes in that step, and the
\* notification of the write is only queued for the other windows.
C22_SetValueThenWriteThenNotify ==
    [][lastCall'.op = "setValue"
         => LET i == lastCall'.inst
                k == lastCall'.key
                changed == ~lastCall'.rejected /\ store'[k] # store[k]
            IN  /\ hook'[i].storedValue = lastCall'.arg.v
                /\ ops' = <<[op |-> "setItem", key |-> k,
                             s |-> JSONStringify(lastCall'.arg.v)]>>
                /\ ~lastCall'.rejected
                      => store'[k] = Item(JSONStringify(lastCall'.arg.v))
                /\ hook'[Other(i)] = hook[Other(i)]
                /\ events'[windowOf[i]] = events[windowOf[i]]
                /\ \A w \in Documents \ {windowOf[i]} :
                      events'[w] = IF changed
                                   THEN Append(events[w],
                                               StorageEvent(k, store'[k]))
                                   ELSE events[w]]_vars

\* C22, amended: ordering of one setValue.  Within the setValue step the
\* in-memory value of the caller, if its component is mounted, is set (after
\* the unmount it is left as it was), also when the write is then rejected
\* (it is set before the write is attempted), and the write is made; no
\* other instance changes in that step, and the notification of the write
\* is only queued for the other windows, carrying the entry just stored: it
\* is delivered by a later step.
C22_MountedSetValueThenWriteThenNotify ==
    [][lastCall'.op = "setValue"
         => LET i == lastCall'.inst
                k == lastCall'.key
                changed == ~lastCall'.rejected /\ store'[k] # store[k]
            IN  /\ hook'[i].storedValue = IF hook[i].status = "live"
                                           THEN lastCall'.arg.v
                                           ELSE hook[i].storedValue
                /\ ops' = <<[op |-> "setItem", key |-> k,
                             s |-> JSONStringify(lastCall'.arg.v)]>>
                /\ ~lastCall'.rejected
                      => store'[k] = Item(JSONStringify(lastCall'.arg.v))
                /\ hook'[Other(i)] = hook[Other(i)]
                /\ events'[windowOf[i]] = events[windowOf[i]]
                /\ \A w \in Documents \ {windowOf[i]} :
                      events'[w] = IF changed
                                   THEN Append(events[w],
                                               StorageEvent(k, store'[k]))
                                   ELSE events[w]]_vars

\* After setValue of instance 1 in window A: memory and store hold the new
\* value, the notification for instance 2 in window B is still queued and
\* instance 2 has its old value.
C22_Witness ==
    /\ SetCalled /\ lastCall.inst = 1 /\ ~lastCall.rejected
    /\ hook[1].status = "live"
    /\ windowOf[2] = "B"
    /\ hook[2].status = "live" /\ hook[2].key = hook[1].key
    /\ hook[1].storedValue = JArr(<<JNum(1), JStr(<<"a">>)>>)
    /\ store[hook[1].key] = Item(JSONStringify(hook[1].storedValue))
    /\ events["B"] = <<StorageEvent(hook[1].key, store[hook[1].key])>>
    /\ hook[2].storedValue = JNull

\* C23 as stated: with both instances in one window, every setValue on one
\* instance sets that instance's value and the stored entry, and the value
\* of the other instance (on the same key or not) changes neither in that
\* step nor in any later one that is not its own setValue.
C23_SameContextOtherUnchanged ==
    [][windowOf[1] = windowOf[2]
         => /\ \A j \in Instances :
                  (/\ hook[j].status = "live"
                   /\ hook'[j].status = "live"
                   /\ ~(lastCall'.op = "setValue" /\ lastCall'.inst = j))
                    => hook'[j].storedValue = hook[j].storedValue
            /\ (lastCall'.op = "setValue" /\ ~lastCall'.rejected)
                  => /\ hook'[lastCall'.inst].storedValue = lastCall'.arg.v
                     /\ store'[lastCall'.key]
                           = Item(JSONStringify(lastCall'.arg.v))
            /\ events' = NoEvents]_vars

\* C23, amended: with both instances in one window, a setValue on one
\* instance sets the stored entry and, if its component is mounted, that
\* instance's value (after the unmount its value is left as it was), and the
\* value of the other instance (on the same key or not) changes neither in
\* that step nor in any later one that is not its own setValue: no event
\* reaches it.
C23_SameContextOnlyMountedCallerChanges ==
    [][windowOf[1] = windowOf[2]
         => /\ \A j \in Instances :
                  (/\ hook[j].status = "live"
                   /\ hook'[j].status = "live"
                   /\ ~(lastCall'.op = "setValue" /\ lastCall'.inst = j))
                    => hook'[j].storedValue = hook[j].storedValue
            /\ (lastCall'.op = "setValue" /\ ~lastCall'.rejected)
                  => /\ hook'[lastCall'.inst].storedValue =
                           IF hook[lastCall'.inst].status = "live"
                           THEN lastCall'.arg.v
                           ELSE hook[lastCall'.inst].storedValue
                     /\ store'[lastCall'.key]
                           = Item(JSONStringify(lastCall'.arg.v))
            /\ events' = NoEvents]_vars

C23_Witness ==
    /\ SetCalled /\ lastCall.inst = 1 /\ ~lastCall.rejected
    /\ hook[1].status = "live"
    /\ windowOf[2] = "A"
    /\ hook[2].status = "live" /\ hook[2].key = hook[1].key
    /\ hook[1].storedValue = JArr(<<JNum(1), JStr(<<"a">>)>>)
    /\ store[hook[1].key] = Item(JSONStringify(hook[1].storedValue))
    /\ hook[2].storedValue = JStr(<<>>)

HandlersOf(i) == {l \in listeners : l.inst = i}

\* C26: exactly one handler is subscribed for an instance in
\* every state between its creation and its teardown, also across key
\* changes, and none after teardown.
C26_ExactlyOneHandler ==
    \A i \in Instances :
        /\ hook[i].status = "live" => Cardinality(HandlersOf(i)) = 1
        /\ hook[i].status = "gone" => HandlersOf(i) = {}

\* C24: the value starts at the given initial value, false when none is
\* given, and as long as toggle() is the only action called, the value
\* rendered after n toggle() calls, in whatever batches, is the initial
\* value when n is even and its negation when n is odd.
C24_ToggleParity ==
    LET initial == IF tArg.given THEN tArg.b ELSE FALSE
    IN  /\ tLast.op = "mount" => tValue = initial
        /\ (tOnlyToggle /\ tQueue = <<>>)
              => tValue = IF tToggles % 2 = 0 THEN initial ELSE ~initial

\* Two toggle() calls in one batch, after an earlier one: three in all.
C24_Witness ==
    /\ tLast.op = "render" /\ Len(tLast.calls) = 2
    /\ tOnlyToggle /\ tToggles = 3
    /\ tArg = NoArg /\ tValue = TRUE

\* C25: after a batch whose last call is setTrue() the value is true, after
\* setFalse() false, after setValue(b) b, whatever the value was before and
\* whatever was called before in the batch.
C25_SettersAreAbsolute ==
    tLast.op = "render"
      => LET c == tLast.calls[Len(tLast.calls)]
         IN  /\ c.call = "setTrue" => tValue = TRUE
             /\ c.call = "setFalse" => tValue = FALSE
             /\ c.call = "setValue" => tValue = c.arg

\* setTrue() called when the value is already true, after a toggle() of
\* the same batch.
C25_Witness ==
    /\ tLast.op = "render" /\ tLast.before = TRUE
    /\ Len(tLast.calls) = 2
    /\ tLast.calls[1].call = "toggle" /\ tLast.calls[2].call = "setTrue"
    /\ tValue = TRUE

\* C28 as stated: in every reachable state before teardown in which no timer
\* is pending the output equals the latest input; and whenever a timer fires,
\* the value it writes to the output is the input current at that time.
C28_QuiescentOutputIsInput ==
    /\ [](mounted /\ timers = {} => debouncedValue = value)
    /\ [][(mounted' /\ \E t \in timers : /\ t.due <= now
                                           /\ timers' = timers \ {t})
            => debouncedValue' = value]_vars

\* C28: in every reachable state before teardown in which no timer is
\* pending and the effect of the latest render has run, the output equals
\* the latest input; and whenever a timer fires, the value it writes to the
\* output is the input the current effect ran with, which is the current
\* input unless a render's effect has yet to run.
C28_QuiescentOnceEffectRan ==
    /\ [](mounted /\ ~effectPending /\ timers = {} => debouncedValue = value)
    /\ [][(mounted' /\ \E t \in timers : /\ t.due <= now
                                           /\ timers' = timers \ {t})
            => /\ debouncedValue' = deps.value
               /\ ~effectPending => deps.value = value]_vars

\* A timer has fired and changed the output to the input set by the last
\* change; nothing is pending.
C28_Witness ==
    /\ mounted /\ lastStep = "fire"
    /\ ~effectPending
    /\ timers = {}
    /\ outAtEffect # value
    /\ debouncedValue = value
    /\ delay > 0
    /\ now = effectAt + delay

\* C30: a step that leaves the input value and the delay as they were (a
\* re-render with the same inputs, or the firing of the timer and the
\* re-render it causes), taken when the effect of the latest change has run,
\* leaves no effect to run, schedules no timer and cancels none: the pending
\* timer stays, with its due time, unless it is the one that fires.
C30_SameInputsKeepTimer ==
    [][(mounted' /\ ~effectPending /\ value' = value /\ delay' = delay)
         => /\ ~effectPending'
            /\ handler' = handler
            /\ \/ timers' = timers
               \/ \E t \in timers : /\ t.due <= now
                                     /\ timers' = timers \ {t}
                                     /\ debouncedValue' = t.val]_vars

\* A re-render with the same inputs while the timer is pending, part of its
\* delay gone: the timer is still the one scheduled at the last change.
C30_Witness ==
    /\ lastStep = "rerender-same"
    /\ now > effectAt
    /\ timers = {[id |-> handler, due |-> effectAt + delay, val |-> value]}
    /\ now < effectAt + delay
    /\ debouncedValue # value

\* C29: liveness.  If from some point on the hook stays mounted and the
\* input value and the delay stay the same, then from some point on the
\* output equals that input and no timer is pending (so the output changes
\* no more).
C29_EventuallyQuiescent ==
    \A v \in Values, d \in Delays :
        <>[](mounted /\ value = v /\ delay = d)
          => <>[](debouncedValue = v /\ timers = {})

\* The inputs were changed, the timer of the change has fired, and time has
\* gone on since with nothing pending and the output equal to the input.
C29_Witness ==
    /\ mounted /\ lastStep = "tick"
    /\ ~effectPending
    /\ prev # NoEffect /\ prev.v # value
    /\ delay > 0
    /\ now > effectAt + delay
    /\ timers = {}
    /\ debouncedValue = value

(***************************************************************************)
(* Frame conditions of useLocalStorage.                                    *)
(***************************************************************************)

\* C31: open is read-only.  The first render of a hook instance writes
\* nothing to the store: it makes no setItem call and every entry, absent
\* or present, is after the render what it was before; so is it after every
\* other step that is not a setValue.
C31_OpenIsReadOnly ==
    [][lastCall'.op # "setValue"
         => /\ store' = store
            /\ \A n \in 1..Len(ops') : ops'[n].op # "setItem"
            /\ lastCall'.op = "open" /\ hasWindow
                  => /\ ops' = <<[op |-> "getItem", key |-> lastCall'.key]>>
                     /\ lastCall'.item = store'[lastCall'.key]]_vars

\* An open in a browser with a non-null initial value, on a key with no
\* entry: the entry is still absent after it, and the entry of the other key
\* still holds its string, which is no JSON.
C31_Witness ==
    /\ Opened /\ hasWindow
    /\ lastCall.arg = JArr(<<JNum(1), JStr(<<"a">>)>>)
    /\ store[lastCall.key] = Absent
    /\ hook[lastCall.inst].storedValue = lastCall.arg
    /\ \E k \in Keys : store[k] = Item(<<"[", "1", ",">>)

\* C32: handling a notification writes nothing.  The step that delivers a
\* notification to a window, whether an instance adopts its value or all
\* ignore it, makes no store call and leaves every entry as it was; the
\* delivered notification leaves its queue and no notification is queued for
\* any window, so a write raises no further writes or notifications.
C32_NotificationWritesNothing ==
    [][lastCall'.op = "event"
         => /\ store' = store
            /\ ops' = <<>>
            /\ \A w \in Windows :
                  events'[w] = IF w = lastCall'.win THEN Tail(events[w])
                               ELSE events[w]]_vars

\* Instance 1 in window A wrote the array and instance 2 in window B then
\* wrote the empty string; window A's notification of the first write is
\* delivered to instance 2 in B, which adopts the array: the store still
\* holds instance 2's own write, and the only notification left is the one
\* that write raised for A.
C32_Witness ==
    /\ Notified /\ lastCall.win = "B" /\ lastCall.heard = {2}
    /\ hook[1].status = "live" /\ hook[1].key = lastCall.key
    /\ hook[2].key = lastCall.key
    /\ lastCall.item = Item(JSONStringify(JArr(<<JNum(1), JStr(<<"a">>)>>)))
    /\ lastCall.before[2].storedValue = JStr(<<>>)
    /\ hook[2].storedValue = JArr(<<JNum(1), JStr(<<"a">>)>>)
    /\ store[lastCall.key] = Item(JSONStringify(JStr(<<>>)))
    /\ events["B"] = <<>>
    /\ events["A"] = <<StorageEvent(lastCall.key, store[lastCall.key])>>

\* C33: cross-context convergence.  With the two instances live on the same
\* key in two windows, once every notification has been delivered (and no
\* write was rejected), the in-memory value of each instance is the
\* deserialization of the stored entry, after any interleaving of their
\* setValue calls.
C33_ContextsConverge ==
    (/\ windowOf[1] # windowOf[2]
     /\ \A i \in Instances : hook[i].status = "live"
     /\ hook[1].key = hook[2].key
     /\ events = NoEvents
     /\ ~everRejected
     /\ store[hook[1].key].present)
      => \A i \in Instances :
            LET r == JSONParse(store[hook[1].key].s)
            IN  r.ok /\ hook[i].storedValue = r.v

\* C34: a notification for the hook's own key whose newValue is null (the
\* entry was removed, or the store cleared, by another context) changes
\* nothing in the hook: the in-memory value is the one held before, whatever
\* the initial value was, and no warning is emitted.
C34_RemovalKeepsValue ==
    (/\ Notified
     /\ lastCall.item = Absent
     /\ 1 \in lastCall.heard
     /\ lastCall.key = lastCall.before[1].key)
      => /\ hook = lastCall.before
         /\ console = <<>>

\* The hook, opened with null or 0, was set to the empty string; another
\* context removed the entry of its key and the notification was handled:
\* the value is still the empty string.
C34_Witness ==
    /\ NotifiedLive(lastCall.key)
    /\ 1 \in lastCall.heard
    /\ lastCall.item = Absent
    /\ store[lastCall.key] = Absent
    /\ hook[1].storedValue = JStr(<<>>)

\* C35: key change.  The re-render of a live instance with another key
\* carries its in-memory value over and neither reads nor writes the store;
\* from then on the instance works under the new key, as it does under
\* whatever key it has: a notification for another key (the old one
\* included) leaves its value as it was, a notification for its key with the
\* serialization of v sets v, and its setValue writes the entry of its key
\* and no other.
C35_KeyChange ==
    [][\A i \in Instances :
         (hook[i].status = "live" /\ hook'[i].status = "live")
           => LET k == hook[i].key
              IN  /\ (lastCall'.op = "rekey" /\ lastCall'.inst = i)
                        => /\ lastCall'.before = k
                           /\ hook'[i].key = lastCall'.key
                           /\ hook'[i].key # k
                           /\ hook'[i].storedValue = hook[i].storedValue
                           /\ ops' = <<>>
                           /\ store' = store
                  /\ lastCall'.op = "event"
                        => IF lastCall'.key = k
                           THEN \A v \in JVals :
                                   lastCall'.item = Item(JSONStringify(v))
                                     => hook'[i].storedValue = v
                           ELSE hook'[i].storedValue = hook[i].storedValue
                  /\ (lastCall'.op = "setValue" /\ lastCall'.inst = i)
                        => /\ lastCall'.key = k
                           /\ \A n \in 1..Len(ops') : ops'[n].key = k
                           /\ \A other \in Keys \ {k} :
                                 store'[other] = store[other]
                           /\ hasWindow
                                 => store'[k] = Item(JSONStringify(
                                                   hook'[i].storedValue))]_vars

\* C36 as stated: a rejected write leaves the store as it was.  Every
\* setValue whose setItem is rejected changes no entry and queues no
\* notification, and holds its new value in memory: an instance opened next
\* on that key yields the value of the entry found before the call, or its
\* own initial value if there is none, and not the value the failing
\* instance holds in memory.
C36_RejectedWriteKeepsEntry ==
    [][/\ (lastCall'.op = "setValue" /\ lastCall'.rejected)
            => /\ store' = store
               /\ store'[lastCall'.key] = lastCall'.item
               /\ events' = events
               /\ hook'[lastCall'.inst].storedValue = lastCall'.arg.v
       /\ (/\ lastCall.op = "setValue" /\ lastCall.rejected
           /\ lastCall'.op = "open" /\ lastCall'.key = lastCall.key)
            => LET got == hook'[lastCall'.inst].storedValue
                   mem == hook'[lastCall.inst].storedValue
               IN  /\ ~lastCall.item.present => got = lastCall'.arg
                   /\ \A v \in JVals :
                         lastCall.item = Item(JSONStringify(v))
                           => /\ got = v
                              /\ v # lastCall.arg.v => got # mem]_vars

\* C36, amended: a rejected write leaves the store as it was.  A setValue
\* whose setItem is rejected changes no entry and queues no notification:
\* the entry of its key is the one found before the call.  An instance
\* opened next on that key therefore yields the value of that entry, or its
\* own initial value if there is none, and not the value the failing
\* instance, if its component is mounted, holds in memory (the value of the
\* rejected call; after the unmount the call leaves the memory as it was).
C36_RejectedWriteOfMountedKeepsEntry ==
    [][/\ (lastCall'.op = "setValue" /\ lastCall'.rejected)
            => /\ store' = store
               /\ store'[lastCall'.key] = lastCall'.item
               /\ events' = events
               /\ hook'[lastCall'.inst].storedValue =
                     IF hook[lastCall'.inst].status = "live"
                     THEN lastCall'.arg.v
                     ELSE hook[lastCall'.inst].storedValue
       /\ (/\ lastCall.op = "setValue" /\ lastCall.rejected
           /\ lastCall'.op = "open" /\ lastCall'.key = lastCall.key)
            => LET got == hook'[lastCall'.inst].storedValue
                   mem == hook'[lastCall.inst].storedValue
               IN  /\ ~lastCall.item.present => got = lastCall'.arg
                   /\ \A v \in JVals :
                         lastCall.item = Item(JSONStringify(v))
                           => /\ got = v
                              /\ (/\ v # lastCall.arg.v
                                  /\ hook[lastCall.inst].status = "live")
                                    => got # mem]_vars

\* Instance 1 stored the array and then had its write of the empty string
\* rejected; instance 2, opened on the same key with initial value null,
\* yields the array, while instance 1 holds the empty string.
C36_Witness ==
    /\ Opened /\ lastCall.inst = 2 /\ lastCall.arg = JNull
    /\ everRejected
    /\ hook[1].status = "live" /\ hook[1].key = lastCall.key
    /\ hook[1].storedValue = JStr(<<>>)
    /\ lastCall.item = Item(JSONStringify(JArr(<<JNum(1), JStr(<<"a">>)>>)))
    /\ store[lastCall.key] = lastCall.item
    /\ hook[2].storedValue = JArr(<<JNum(1), JStr(<<"a">>)>>)
    /\ events = NoEvents

====
